---------------------------- MODULE Spec2Model ----------------------------
(***************************************************************************)
(* Verification model of the BlueFusion / RV1106 HFP toolkit.              *)
(*                                                                         *)
(* The module holds one state machine per component, each with its own     *)
(* specification over the shared variable list:                            *)
(*   SpecAC    auto-connect manager   (interfaces/auto_connect_manager.py) *)
(*   SpecAC2     the same with two addresses and one connection slot       *)
(*   SpecACLife  the same with callbacks, state file and restarts          *)
(*   SpecACRestored the same constructed over a saved state file           *)
(*   SpecACFair  SpecAC with the event loop running its tasks              *)
(*   SpecHFP   HFP protocol handler   (src/hfp_handler.py)                 *)
(*   SpecHFPLong the same over a session of more than 1000 commands        *)
(*   SpecHFPReset the same with reset() between the commands               *)
(*   SpecH5    H5 transport           (next_steps/rtk_firmware_loader.py)  *)
(*   SpecH5Link  the same with a peer that sends frames of its own         *)
(*   SpecUart  UART packet reader                    (same file)           *)
(*   SpecUartFrames the same over frames built by create_packet alone      *)
(*   SpecFW    RTL8723D firmware loader              (same file)           *)
(*   SpecPat   hex pattern matcher    (analyzers/hex_pattern_matcher.py)   *)
(*   SpecBond  security manager       (interfaces/security_manager.py)     *)
(*   SpecBondLoad the same with a bond file replaced between runs          *)
(*   SpecInspector packet inspector   (analyzers/packet_inspector.py)      *)
(*   SpecGatt  security-gated GATT operations (interfaces/macbook_ble.py)  *)
(*   SpecCollector packet collectors  (interfaces/sniffer_dongle.py)       *)
(*   SpecCollectorFair the same with the event loop running its tasks      *)
(*   SpecMos   MOS estimate     (next_steps/advanced_sco_monitor.py)       *)
(*   SpecMonitor unified monitor      (src/unified_monitor.py)             *)
(*   SpecHopper channel hopper        (interfaces/channel_hopper.py)       *)
(*   SpecHealth device health score   (interfaces/auto_connect_manager.py) *)
(***************************************************************************)
EXTENDS Integers, Sequences, FiniteSets, TLC

VARIABLES
    \* ---- auto-connect manager ----
    conns,                \* heap of ManagedConnection objects: oid -> record
    next_oid,             \* next object identity to allocate
    managed_connections,  \* AutoConnectManager.managed_connections: address -> oid (0: absent)
    mc_order,             \* insertion order of the managed_connections dict
    connection_tasks,     \* AutoConnectManager.connection_tasks: address -> task
    running,              \* AutoConnectManager._running
    default_config,       \* AutoConnectManager.default_config
    queue_checks,         \* scheduled, not yet run _check_connection_queue tasks
    attempts_made,        \* number of completed connection attempts (bounds the run)
    api_calls,            \* number of supervisor API calls made (bounds the run)
    ble_events,           \* number of BLE events delivered (bounds the run)
    addrs,                \* the peer addresses the environment uses in this run
    event_callbacks,      \* whether a callback is registered (event_callbacks non-empty)
    emitted,              \* the event types the callbacks received during the last step
    state_file,           \* the state file
    state_file_writable,  \* whether open(state_file, 'w') succeeds in this run
    last_write,           \* who wrote the state file last, and the tasks live then
    stability_monitor_task, \* "none", or "running" from start() to its cancellation
    state_save_task,      \* likewise, the task of save_state_periodically
    \* ---- HFP protocol handler ----
    hfp,                  \* the HFPProtocolHandler object
    hfp_clock,            \* time.time(), in seconds
    hfp_last,             \* the last process_at_command call and how it ended
    hfp_script,           \* the command trace replayed first in this run
    \* ---- H5 transport ----
    h5,                   \* the H5Protocol object
    h5_wire,              \* the frame create_packet returned last
    h5_made,              \* the (type, payload) that frame was created from
    h5_last,              \* the last call on the endpoint and how it ended
    \* ---- firmware loader ----
    fw,                   \* the RTL8723DFirmwareLoader object
    fw_pc,                \* where setup_device / load_firmware stands
    fw_sent,              \* what this invocation has written to the UART, in order
    fw_version,           \* version['lmp_subversion'] of load_firmware (0: not read)
    fw_mark,              \* index in fw_sent of the step-2 version read (0: not read)
    fw_chunks,            \* firmware chunks still to send
    fw_loaded,            \* what load_firmware returned
    fw_result,            \* what setup_device returned
    fw_runs,              \* number of setup_device invocations (bounds the run)
    fw_failed,            \* the steps of this invocation that timed out or got an unexpected answer
    \* ---- hex pattern matcher ----
    pat_matcher,          \* the HexPatternMatcher object
    pat_result,           \* the PatternMatch of the last analyze call
    \* ---- security manager ----
    sm_bonds,             \* SecurityManager.bonds
    sm_file,              \* the bond file
    sm_bonds2,            \* bonds of a second manager, given other key material
    sm_file2,             \* the second manager's bond file
    sm_callbacks,         \* the registered pairing callback types
    sm_ops,               \* number of calls made (bounds the run)
    sm_last,              \* the last call and how it ended
    \* ---- packet inspector ----
    inspector,            \* the PacketInspector object
    inspected,            \* number of inspect_packet calls made
    \* ---- security-gated operations of the OS BLE source ----
    gatt,                 \* the operation in progress or made last
    \* ---- packet collectors ----
    collector,            \* the collector object, its tasks and its stream consumer
    \* ---- SCO quality estimator ----
    mos,                  \* the last _calculate_mos call and its score in hundredths
    \* ---- unified monitor ----
    unified_monitor,      \* the UnifiedBluetoothMonitor object and its last test report
    \* ---- UART reader ----
    uart,                 \* the serial byte stream read_packet reads and what it returned
    \* ---- channel hopper ----
    hopper,               \* the SmartChannelHopper object and its hop task
    \* ---- device health ----
    health                \* the metrics of one managed connection and its health score

acVars == <<conns, next_oid, managed_connections, mc_order, connection_tasks,
            running, default_config, queue_checks, attempts_made, api_calls,
            ble_events, addrs, event_callbacks, emitted, state_file,
            state_file_writable, last_write, stability_monitor_task,
            state_save_task>>

\* The state file and the two manager-wide tasks.
fileVars == <<state_file, last_write>>
managerTasks == <<stability_monitor_task, state_save_task>>

hfpVars == <<hfp, hfp_clock, hfp_last, hfp_script>>

h5Vars == <<h5, h5_wire, h5_made, h5_last>>

fwVars == <<fw, fw_pc, fw_sent, fw_version, fw_mark, fw_chunks, fw_loaded,
            fw_result, fw_runs, fw_failed>>

patVars == <<pat_matcher, pat_result>>

bondVars == <<sm_bonds, sm_file, sm_bonds2, sm_file2, sm_callbacks, sm_ops, sm_last>>

inspectorVars == <<inspector, inspected>>

\* The components above, and the ones below.
earlierVars == <<acVars, hfpVars, h5Vars, fwVars, patVars, bondVars, inspectorVars>>

gattVars == <<gatt>>
collectorVars == <<collector>>
mosVars == <<mos>>
monitorVars == <<unified_monitor>>
uartVars == <<uart>>
hopperVars == <<hopper>>
healthVars == <<health>>

laterVars == <<gattVars, collectorVars, mosVars, monitorVars, uartVars, hopperVars, healthVars>>

vars == <<earlierVars, laterVars>>

\* What the steps of one component leave alone: the other components.
otherThanAC == <<hfpVars, h5Vars, fwVars, patVars, bondVars, inspectorVars,
    laterVars>>
otherThanHFP == <<acVars, h5Vars, fwVars, patVars, bondVars, inspectorVars,
    laterVars>>
otherThanH5 == <<acVars, hfpVars, fwVars, patVars, bondVars, inspectorVars,
    laterVars>>
otherThanFW == <<acVars, hfpVars, h5Vars, patVars, bondVars, inspectorVars,
    laterVars>>
otherThanPat == <<acVars, hfpVars, h5Vars, fwVars, bondVars, inspectorVars,
    laterVars>>
otherThanBond == <<acVars, hfpVars, h5Vars, fwVars, patVars, inspectorVars,
    laterVars>>
otherThanInspector == <<acVars, hfpVars, h5Vars, fwVars, patVars, bondVars, laterVars>>
otherThanGatt ==
    <<earlierVars, collectorVars, mosVars, monitorVars, uartVars, hopperVars, healthVars>>
otherThanCollector ==
    <<earlierVars, gattVars, mosVars, monitorVars, uartVars, hopperVars, healthVars>>
otherThanCollectorAndHopper ==
    <<earlierVars, gattVars, mosVars, monitorVars, uartVars, healthVars>>
otherThanMos ==
    <<earlierVars, gattVars, collectorVars, monitorVars, uartVars, hopperVars, healthVars>>
otherThanMonitor ==
    <<earlierVars, gattVars, collectorVars, mosVars, uartVars, hopperVars, healthVars>>
otherThanUart ==
    <<acVars, hfpVars, fwVars, patVars, bondVars, inspectorVars,
      gattVars, collectorVars, mosVars, monitorVars, hopperVars, healthVars>>
otherThanHopper ==
    <<earlierVars, gattVars, collectorVars, mosVars, monitorVars, uartVars, healthVars>>
otherThanHealth ==
    <<earlierVars, gattVars, collectorVars, mosVars, monitorVars, uartVars, hopperVars>>

\* What no handler of a constructed auto-connect manager changes.
environment == <<addrs, event_callbacks, state_file_writable, otherThanAC>>

\* ------------------------------------------------------------------------
\* Generic helpers
\* ------------------------------------------------------------------------
Min(a, b) == IF a <= b THEN a ELSE b

RECURSIVE Pow2(_)
Pow2(n) == IF n = 0 THEN 1 ELSE 2 * Pow2(n - 1)

RECURSIVE Gcd(_, _)
Gcd(a, b) == IF b = 0 THEN a ELSE Gcd(b, a % b)

\* The float quotient s / t, kept exact as a fraction in lowest terms.
Quotient(s, t) == LET g == Gcd(s, t) IN <<s \div g, t \div g>>

\* ========================================================================
\* Auto-connect manager
\* ========================================================================

\* ---- bounds of the model ----
MaxAttempts == 3
MaxApiCalls == 3
MaxBleEvents == 1
MaxObjects == 2
MaxRetryCount == 7

Addrs == {"AA", "BB"}

\* ConnectionConfig(): the dataclass defaults.
DefaultConfig ==
    [max_retries |-> 5, initial_retry_delay |-> 1, max_retry_delay |-> 60,
     retry_strategy |-> "exponential_backoff", reconnect_on_failure |-> TRUE,
     max_consecutive_failures |-> 3, priority |-> "medium",
     max_concurrent_connections |-> 5]

\* The configuration of the retry scenario: max_retries=3, exponential, 1.0, 60.0.
ScenarioConfig == [DefaultConfig EXCEPT !.max_retries = 3]

\* A linear configuration whose cap is reached after two failures.
LinearConfig ==
    [max_retries |-> 4, initial_retry_delay |-> 2, max_retry_delay |-> 5,
     retry_strategy |-> "linear_backoff", reconnect_on_failure |-> FALSE,
     max_consecutive_failures |-> 2, priority |-> "high",
     max_concurrent_connections |-> 1]

\* A fixed-interval configuration whose cap lies below the initial delay.
FixedConfig ==
    [max_retries |-> 2, initial_retry_delay |-> 3, max_retry_delay |-> 2,
     retry_strategy |-> "fixed_interval", reconnect_on_failure |-> TRUE,
     max_consecutive_failures |-> 4, priority |-> "low",
     max_concurrent_connections |-> 5]

Configs == {DefaultConfig, ScenarioConfig, LinearConfig, FixedConfig}

\* ConnectionMetrics(): the pydantic defaults.
ConnectionMetrics ==
    [total_attempts |-> 0, successful_connections |-> 0, failed_connections |-> 0,
     last_connected |-> "None", last_failure |-> "None",
     consecutive_failures |-> 0, stability_score |-> <<0, 1>>]

\* ManagedConnection.__init__
ManagedConnection(address, config) ==
    [address |-> address, config |-> config, state |-> "disconnected",
     metrics |-> ConnectionMetrics, retry_count |-> 0, is_enabled |-> TRUE,
     pause_until |-> "none"]

\* The delay of the strategy before it is capped.
RetryDelayUncapped(config, retry_count) ==
    IF config.retry_strategy = "exponential_backoff"
    THEN config.initial_retry_delay * Pow2(retry_count)
    ELSE IF config.retry_strategy = "linear_backoff"
         THEN config.initial_retry_delay * (1 + retry_count)
         ELSE config.initial_retry_delay

\* calculate_retry_delay with the final min() left out.
RetryDelay_NoCap(config, retry_count) ==
    IF config.retry_strategy = "exponential_backoff"
    THEN config.initial_retry_delay * Pow2(retry_count)
    ELSE IF config.retry_strategy = "linear_backoff"
         THEN config.initial_retry_delay * (1 + retry_count)
         ELSE config.initial_retry_delay

\* ManagedConnection.calculate_retry_delay, as a function of config and retry_count
RetryDelay(config, retry_count) ==
    LET delay == IF config.retry_strategy = "exponential_backoff"
                 THEN config.initial_retry_delay * Pow2(retry_count)
                 ELSE IF config.retry_strategy = "linear_backoff"
                      THEN config.initial_retry_delay * (1 + retry_count)
                      ELSE config.initial_retry_delay
    IN  Min(delay, config.max_retry_delay)

calculate_retry_delay(c) == RetryDelay(c.config, c.retry_count)

\* ManagedConnection.update_metrics
update_metrics(c, success) ==
    LET m == c.metrics
        total == m.total_attempts + 1
        succ == IF success THEN m.successful_connections + 1
                ELSE m.successful_connections
    IN  [c EXCEPT !.metrics =
            [total_attempts |-> total,
             successful_connections |-> succ,
             failed_connections |->
                 IF success THEN m.failed_connections ELSE m.failed_connections + 1,
             last_connected |-> IF success THEN "datetime" ELSE m.last_connected,
             last_failure |-> IF success THEN m.last_failure ELSE "datetime",
             consecutive_failures |->
                 IF success THEN 0 ELSE m.consecutive_failures + 1,
             stability_score |-> Quotient(succ, total)]]

\* ManagedConnection.should_retry; pause_until = "pending" is a deadline still
\* in the future, "expired" one that has passed.
should_retry(c) ==
    IF ~c.is_enabled THEN FALSE
    ELSE IF c.pause_until = "pending" THEN FALSE
    ELSE IF c.retry_count >= c.config.max_retries THEN FALSE
    ELSE IF c.metrics.consecutive_failures >= c.config.max_consecutive_failures
         THEN FALSE
    ELSE TRUE

\* ManagedConnection.pause
pause(c) == [c EXCEPT !.pause_until = "pending", !.state = "paused"]

\* ---- tasks ----
NoTask == [pc |-> "none", conn |-> 0, sub |-> 0, delay |-> 0]

\* asyncio.create_task(self._connection_manager(address)): the coroutine binds
\* connection = self.managed_connections[address] when it first runs.
NewTask(oid) == [pc |-> "loop", conn |-> oid, sub |-> 0, delay |-> 0]

HasTask(ct, a) == ct[a].pc # "none"

LiveOids(mc, ct) ==
    ({mc[a] : a \in Addrs} \cup {ct[a].conn : a \in Addrs}
        \cup {ct[a].sub : a \in Addrs}) \ {0}

\* Install a new heap, table and task set; objects nothing refers to are dropped.
Commit(h, mc, ct) ==
    /\ conns' = [o \in LiveOids(mc, ct) |-> h[o]]
    /\ managed_connections' = mc
    /\ connection_tasks' = ct

PriorityValue(p) ==
    CASE p = "high" -> 3
      [] p = "medium" -> 2
      [] p = "low" -> 1

\* AutoConnectManager._compare_priority
compare_priority(p1, p2) == PriorityValue(p1) - PriorityValue(p2)

\* ---- events ----
\* AutoConnectManager._emit_event: every registered callback receives the
\* event; with none registered nothing is delivered.  Only the event type is
\* kept.
emit_event(callbacks, event_types) == IF callbacks THEN event_types ELSE << >>

Emit(event_types) == emitted' = emit_event(event_callbacks, event_types)

\* ---- the state file ----
\* os.path.exists(state_file) is False
MissingStateFile == [kind |-> "missing", devices |-> << >>]

\* The file after json.dump(state_data, f, indent=2) returned.
StateJson(devices) == [kind |-> "json", devices |-> devices]

\* The file after json.dump raised part-way: opened with 'w', so the old
\* contents are gone and the text written so far is no JSON document.
TruncatedStateFile == [kind |-> "truncated", devices |-> << >>]

\* state_data["devices"][address] of _save_state: asdict(config),
\* metrics.model_dump(), enabled, last_state.
StateEntry(c) ==
    [address |-> c.address, config |-> c.config, metrics |-> c.metrics,
     enabled |-> c.is_enabled, last_state |-> c.state]

\* json.dump accepts the numbers, strings, booleans and None of an entry;
\* model_dump() leaves last_connected and last_failure as datetime objects,
\* which the encoder rejects with TypeError.
JsonSerializable(entry) ==
    /\ entry.metrics.last_connected = "None"
    /\ entry.metrics.last_failure = "None"

\* _save_state reporting a failed write under another event type.
save_state_OtherErrorType(h, mc, order, file, writable) ==
    LET entries == [i \in 1..Len(order) |-> StateEntry(h[mc[order[i]]])]
    IN  IF ~writable
        THEN [file |-> file, event |-> "state_write_error"]
        ELSE IF \E i \in 1..Len(order) : ~JsonSerializable(entries[i])
        THEN [file |-> TruncatedStateFile, event |-> "state_write_error"]
        ELSE [file |-> StateJson(entries), event |-> "state_saved"]

\* AutoConnectManager._save_state on the table mc (dict order `order`) over
\* the heap h: the file afterwards and the event emitted.
save_state(h, mc, order, file, writable) ==
    LET entries == [i \in 1..Len(order) |-> StateEntry(h[mc[order[i]]])]
    IN  IF ~writable
        THEN [file |-> file, event |-> "state_save_error"]
        ELSE IF \E i \in 1..Len(order) : ~JsonSerializable(entries[i])
        THEN [file |-> TruncatedStateFile, event |-> "state_save_error"]
        ELSE [file |-> StateJson(entries), event |-> "state_saved"]

NoWrite == [by |-> "none", live |-> {}]

\* The tasks that have been created and neither returned nor been cancelled.
LiveTaskNames(ct, monitor, saver) ==
    {a \in Addrs : ct[a].pc \notin {"none", "done"}}
        \cup (IF monitor # "none" THEN {"stability_monitor"} ELSE {})
        \cup (IF saver # "none" THEN {"state_saver"} ELSE {})

\* The record of a write of the state file by `by` while `live` tasks exist;
\* open(state_file, 'w') failing leaves file and record as they are.
WriteRecord(by, live) ==
    IF state_file_writable THEN [by |-> by, live |-> live] ELSE last_write

\* AutoConnectManager._load_state: the devices restored from the file, in
\* file order; add_managed_device gives each a new ManagedConnection, then
\* metrics and is_enabled are set from the entry.
load_state(file) ==
    IF file.kind = "json"
    THEN [i \in 1..Len(file.devices) |->
             [ManagedConnection(file.devices[i].address, file.devices[i].config)
                 EXCEPT !.metrics = file.devices[i].metrics,
                        !.is_enabled = file.devices[i].enabled]]
    ELSE << >>

\* The manager as constructed, with no state file to load.
ACInitial ==
    /\ emitted = << >>
    /\ state_file = MissingStateFile
    /\ last_write = NoWrite
    /\ stability_monitor_task = "none"
    /\ state_save_task = "none"
    /\ conns = << >>
    /\ next_oid = 1
    /\ managed_connections = [a \in Addrs |-> 0]
    /\ mc_order = << >>
    /\ connection_tasks = [a \in Addrs |-> NoTask]
    /\ running = FALSE
    /\ queue_checks = 0
    /\ attempts_made = 0
    /\ api_calls = 0
    /\ ble_events = 0

\* n copies of x
Repeat(x, n) == [i \in 1..n |-> x]

\* The tasks live when a handler of the running manager is entered.
LiveNow == LiveTaskNames(connection_tasks, stability_monitor_task, state_save_task)

ApiCall ==
    /\ api_calls < MaxApiCalls
    /\ api_calls' = api_calls + 1
    /\ UNCHANGED environment

\* AutoConnectManager.add_managed_device; config is an Optional: << >> is None
\* and selects default_config, <<c>> is the configuration c
add_managed_device(address, config) ==
    /\ ApiCall
    /\ next_oid <= MaxObjects
    /\ LET device_config == IF config = << >> THEN default_config ELSE config[1]
           h == [o \in DOMAIN conns \cup {next_oid} |->
                    IF o = next_oid THEN ManagedConnection(address, device_config)
                    ELSE conns[o]]
           mc == [managed_connections EXCEPT ![address] = next_oid]
           order == IF managed_connections[address] = 0
                    THEN Append(mc_order, address) ELSE mc_order
           saved == save_state(h, mc, order, state_file, state_file_writable)
       IN  /\ Commit(h, mc, connection_tasks)
           /\ mc_order' = order
           /\ IF running
              THEN /\ state_file' = saved.file
                   /\ last_write' = WriteRecord("add_managed_device", LiveNow)
                   /\ Emit(<<"device_added", saved.event>>)
              ELSE /\ UNCHANGED fileVars
                   /\ Emit(<<"device_added">>)
    /\ next_oid' = next_oid + 1
    /\ UNCHANGED <<running, default_config, queue_checks, attempts_made, ble_events,
                   managerTasks>>

\* AutoConnectManager.remove_managed_device
remove_managed_device(address) ==
    /\ ApiCall
    /\ IF managed_connections[address] # 0
       THEN LET mc == [managed_connections EXCEPT ![address] = 0]
                ct == [connection_tasks EXCEPT ![address] = NoTask]
                order == SelectSeq(mc_order, LAMBDA x : x # address)
                saved == save_state(conns, mc, order, state_file, state_file_writable)
            IN  /\ Commit(conns, mc, ct)
                /\ mc_order' = order
                /\ IF running
                   THEN /\ state_file' = saved.file
                        /\ last_write' =
                               WriteRecord("remove_managed_device",
                                           LiveTaskNames(ct, stability_monitor_task,
                                                         state_save_task))
                        /\ Emit(<<"device_removed", saved.event>>)
                   ELSE /\ UNCHANGED fileVars
                        /\ Emit(<<"device_removed">>)
       ELSE /\ UNCHANGED <<conns, managed_connections, connection_tasks, mc_order,
                           fileVars>>
            /\ Emit(<< >>)
    /\ UNCHANGED <<next_oid, running, default_config, queue_checks, attempts_made,
                   ble_events, managerTasks>>

\* AutoConnectManager.enable_device
enable_device(address) ==
    /\ ApiCall
    /\ IF managed_connections[address] # 0
       THEN /\ conns' = [conns EXCEPT ![managed_connections[address]].is_enabled = TRUE]
            /\ Emit(<<"device_enabled">>)
       ELSE /\ UNCHANGED conns
            /\ Emit(<< >>)
    /\ UNCHANGED <<next_oid, managed_connections, mc_order, connection_tasks, running,
                   default_config, queue_checks, attempts_made, ble_events,
                   fileVars, managerTasks>>

\* AutoConnectManager.disable_device
disable_device(address) ==
    /\ ApiCall
    /\ IF managed_connections[address] # 0
       THEN /\ Commit([conns EXCEPT ![managed_connections[address]].is_enabled = FALSE],
                      managed_connections,
                      [connection_tasks EXCEPT ![address] = NoTask])
            /\ Emit(<<"device_disabled">>)
       ELSE /\ UNCHANGED <<conns, managed_connections, connection_tasks>>
            /\ Emit(<< >>)
    /\ UNCHANGED <<next_oid, mc_order, running, default_config, queue_checks,
                   attempts_made, ble_events, fileVars, managerTasks>>

\* AutoConnectManager.pause_device
pause_device(address) ==
    /\ ApiCall
    /\ IF managed_connections[address] # 0
       THEN /\ conns' = [conns EXCEPT ![managed_connections[address]] = pause(@)]
            /\ Emit(<<"device_paused">>)
       ELSE /\ UNCHANGED conns
            /\ Emit(<< >>)
    /\ UNCHANGED <<next_oid, managed_connections, mc_order, connection_tasks, running,
                   default_config, queue_checks, attempts_made, ble_events,
                   fileVars, managerTasks>>

\* The clock passes the pause deadline of an object.
pause_deadline_passes(o) ==
    /\ o \in DOMAIN conns
    /\ conns[o].pause_until = "pending"
    /\ conns' = [conns EXCEPT ![o].pause_until = "expired"]
    /\ Emit(<< >>)
    /\ UNCHANGED <<next_oid, managed_connections, mc_order, connection_tasks, running,
                   default_config, queue_checks, attempts_made, api_calls, ble_events,
                   fileVars, managerTasks, environment>>

\* The enabled addresses of one priority, in dict order (the priority_groups of
\* _start_priority_connections).
PriorityGroup(p) ==
    SelectSeq(mc_order, LAMBDA a :
        /\ conns[managed_connections[a]].is_enabled
        /\ conns[managed_connections[a]].config.priority = p)

\* AutoConnectManager._start_priority_connections: tasks for the first
\* max_concurrent addresses of high, medium, low.
start_priority_connections ==
    LET queue == PriorityGroup("high") \o PriorityGroup("medium") \o PriorityGroup("low")
        max_concurrent == default_config.max_concurrent_connections
        started == {queue[i] : i \in {j \in 1..Len(queue) : j <= max_concurrent}}
    IN  [a \in Addrs |->
            IF a \in started THEN NewTask(managed_connections[a])
            ELSE connection_tasks[a]]

\* _start_priority_connections: one "connection_queued" event for every
\* enabled address beyond the first max_concurrent.
queued_events ==
    LET queue == PriorityGroup("high") \o PriorityGroup("medium") \o PriorityGroup("low")
        max_concurrent == default_config.max_concurrent_connections
    IN  Repeat("connection_queued",
               IF Len(queue) > max_concurrent THEN Len(queue) - max_concurrent ELSE 0)

\* AutoConnectManager.start
start ==
    /\ ApiCall
    /\ ~running
    /\ running' = TRUE
    /\ stability_monitor_task' = "running"
    /\ state_save_task' = "running"
    /\ Commit(conns, managed_connections, start_priority_connections)
    /\ Emit(queued_events)
    /\ UNCHANGED <<next_oid, mc_order, default_config, queue_checks, attempts_made,
                   ble_events, fileVars>>

\* AutoConnectManager.stop
stop ==
    /\ ApiCall
    /\ running' = FALSE
    \* self._save_state(), with every task still in place
    /\ LET saved == save_state(conns, managed_connections, mc_order, state_file,
                               state_file_writable)
       IN  /\ state_file' = saved.file
           /\ last_write' = WriteRecord("stop", LiveNow)
           /\ Emit(<<saved.event>>)
    \* then task.cancel() for the connection tasks, the monitor and the saver
    /\ Commit(conns, managed_connections, [a \in Addrs |-> NoTask])
    /\ stability_monitor_task' = "none"
    /\ state_save_task' = "none"
    /\ UNCHANGED <<next_oid, mc_order, default_config, queue_checks, attempts_made,
                   ble_events>>

\* The next pass of the task's loop starts a connection attempt.
WouldAttempt(address) ==
    LET t == connection_tasks[address]
        c == conns[t.conn]
    IN  /\ running /\ c.is_enabled /\ c.state = "disconnected"
        /\ should_retry(c) /\ managed_connections[address] # 0

\* AutoConnectManager._connection_manager: one pass of the while loop, up to
\* its next suspension point.
connection_manager(address) ==
    LET t == connection_tasks[address]
        c == conns[t.conn]
        target == managed_connections[address]
    IN
    /\ t.pc = "loop"
    /\ ~(WouldAttempt(address) /\ attempts_made >= MaxAttempts)
    /\ IF ~(running /\ c.is_enabled)
       THEN \* the while condition fails: the coroutine returns
            Commit(conns, managed_connections,
                   [connection_tasks EXCEPT ![address] =
                       [pc |-> "done", conn |-> 0, sub |-> 0, delay |-> 0]])
       ELSE IF c.state = "disconnected"
       THEN IF should_retry(c) /\ target # 0
            THEN \* _attempt_connection up to the await of connect()
                 Commit([conns EXCEPT ![target].state = "connecting"],
                        managed_connections,
                        [connection_tasks EXCEPT ![address] =
                            [t EXCEPT !.pc = "connecting", !.sub = target]])
            ELSE \* sleep(stability_check_interval)
                 UNCHANGED <<conns, managed_connections, connection_tasks>>
       ELSE IF c.state = "connected"
       THEN \* _monitor_connection_health up to the await of read_characteristic()
            IF target # 0
            THEN Commit(conns, managed_connections,
                        [connection_tasks EXCEPT ![address] =
                            [t EXCEPT !.pc = "health", !.sub = target]])
            ELSE UNCHANGED <<conns, managed_connections, connection_tasks>>
       ELSE IF c.state = "failed"
       THEN \* delay = calculate_retry_delay(); await sleep(delay)
            Commit(conns, managed_connections,
                   [connection_tasks EXCEPT ![address] =
                       [t EXCEPT !.pc = "backoff", !.delay = calculate_retry_delay(c)]])
       ELSE IF c.state = "paused" /\ c.pause_until = "expired"
       THEN Commit([conns EXCEPT ![t.conn].pause_until = "none",
                                 ![t.conn].state = "disconnected"],
                   managed_connections, connection_tasks)
       ELSE \* sleep(1.0)
            UNCHANGED <<conns, managed_connections, connection_tasks>>
    /\ Emit(IF WouldAttempt(address) THEN <<"connection_attempt">> ELSE << >>)
    /\ UNCHANGED <<next_oid, mc_order, running, default_config, queue_checks,
                   attempts_made, api_calls, ble_events, fileVars, managerTasks,
                   environment>>

\* _connection_manager, state FAILED: the sleep ends and the state is reset.
backoff_expires(address) ==
    LET t == connection_tasks[address] IN
    /\ t.pc = "backoff"
    /\ Commit([conns EXCEPT ![t.conn].state = "disconnected"],
              managed_connections,
              [connection_tasks EXCEPT ![address] =
                  [t EXCEPT !.pc = "loop", !.delay = 0]])
    /\ Emit(<< >>)
    /\ UNCHANGED <<next_oid, mc_order, running, default_config, queue_checks,
                   attempts_made, api_calls, ble_events, fileVars, managerTasks,
                   environment>>

\* AutoConnectManager._attempt_connection after the await: connect() returned
\* True or False, timed out, or raised.
attempt_connection(address, outcome) ==
    LET t == connection_tasks[address]
        c == conns[t.sub]
        done == IF outcome = "connected"
                THEN update_metrics([c EXCEPT !.state = "connected",
                                              !.retry_count = 0], TRUE)
                ELSE update_metrics([c EXCEPT !.state = "failed",
                                              !.retry_count = c.retry_count + 1], FALSE)
    IN
    /\ t.pc = "connecting"
    /\ Commit([conns EXCEPT ![t.sub] = done], managed_connections,
              [connection_tasks EXCEPT ![address] = [t EXCEPT !.pc = "loop", !.sub = 0]])
    /\ attempts_made' = attempts_made + 1
    /\ Emit(<<CASE outcome = "connected" -> "connection_success"
                [] outcome = "refused" -> "connection_failed"
                [] outcome = "timeout" -> "connection_timeout"
                [] outcome = "error" -> "connection_error">>)
    /\ UNCHANGED <<next_oid, mc_order, running, default_config, queue_checks,
                   api_calls, ble_events, fileVars, managerTasks, environment>>

\* AutoConnectManager._monitor_connection_health after the await: the read
\* succeeded, timed out, or raised.
monitor_connection_health(address, outcome) ==
    LET t == connection_tasks[address] IN
    /\ t.pc = "health"
    /\ Commit(IF outcome = "success" THEN conns
              ELSE [conns EXCEPT ![t.sub].state = "disconnected"],
              managed_connections,
              [connection_tasks EXCEPT ![address] = [t EXCEPT !.pc = "loop", !.sub = 0]])
    /\ Emit(<<CASE outcome = "success" -> "health_check_success"
                [] outcome = "timeout" -> "health_check_timeout"
                [] outcome = "error" -> "health_check_failed">>)
    /\ UNCHANGED <<next_oid, mc_order, running, default_config, queue_checks,
                   attempts_made, api_calls, ble_events, fileVars, managerTasks,
                   environment>>

\* AutoConnectManager._on_ble_event
on_ble_event(address, packet_type) ==
    LET o == managed_connections[address] IN
    /\ ble_events < MaxBleEvents
    /\ ble_events' = ble_events + 1
    /\ IF o = 0 THEN UNCHANGED <<conns, managed_connections, connection_tasks, queue_checks>>
       ELSE IF packet_type = "connection"
       THEN /\ Commit([conns EXCEPT ![o].state = "connected", ![o].retry_count = 0],
                      managed_connections, connection_tasks)
            /\ UNCHANGED queue_checks
       ELSE IF packet_type = "disconnection" /\ conns[o].config.reconnect_on_failure
       THEN /\ Commit([conns EXCEPT ![o].state = "disconnected", ![o].retry_count = 0],
                      managed_connections,
                      IF ~HasTask(connection_tasks, address) /\ conns[o].is_enabled
                      THEN [connection_tasks EXCEPT ![address] = NewTask(o)]
                      ELSE connection_tasks)
            /\ queue_checks' = queue_checks + 1
       ELSE UNCHANGED <<conns, managed_connections, connection_tasks, queue_checks>>
    /\ Emit(<< >>)
    /\ UNCHANGED <<next_oid, mc_order, running, default_config, attempts_made, api_calls,
                   fileVars, managerTasks, environment>>

\* The candidates of _check_connection_queue, in dict order.
QueueCandidates ==
    SelectSeq(mc_order, LAMBDA a :
        /\ conns[managed_connections[a]].is_enabled
        /\ conns[managed_connections[a]].state = "disconnected"
        /\ ~HasTask(connection_tasks, a))

\* The first candidate of the highest priority present.
RECURSIVE BestCandidate(_, _)
BestCandidate(cands, best) ==
    IF cands = << >> THEN best
    ELSE LET a == Head(cands)
             better == \/ best = "None"
                       \/ compare_priority(
                              conns[managed_connections[a]].config.priority,
                              conns[managed_connections[best]].config.priority) > 0
         IN  BestCandidate(Tail(cands), IF better THEN a ELSE best)

\* AutoConnectManager._check_connection_queue
check_connection_queue ==
    LET active_count == Cardinality({a \in Addrs :
                            /\ managed_connections[a] # 0
                            /\ conns[managed_connections[a]].state
                                   \in {"connected", "connecting"}})
        best_candidate == BestCandidate(QueueCandidates, "None")
    IN
    /\ queue_checks > 0
    /\ queue_checks' = queue_checks - 1
    /\ IF active_count < default_config.max_concurrent_connections
          /\ best_candidate # "None"
       THEN /\ Commit(conns, managed_connections,
                      [connection_tasks EXCEPT ![best_candidate] =
                          NewTask(managed_connections[best_candidate])])
            /\ Emit(<<"connection_dequeued">>)
       ELSE /\ UNCHANGED <<conns, managed_connections, connection_tasks>>
            /\ Emit(<< >>)
    /\ UNCHANGED <<next_oid, mc_order, running, default_config, attempts_made,
                   api_calls, ble_events, fileVars, managerTasks, environment>>

\* AutoConnectManager.register_event_callback
register_event_callback ==
    /\ api_calls < MaxApiCalls
    /\ api_calls' = api_calls + 1
    /\ event_callbacks' = TRUE
    /\ Emit(<< >>)
    /\ UNCHANGED <<conns, next_oid, managed_connections, mc_order, connection_tasks,
                   running, default_config, queue_checks, attempts_made, ble_events,
                   fileVars, managerTasks, addrs, state_file_writable, otherThanAC>>

\* AutoConnectManager._stability_monitor: one pass of its loop, up to the
\* sleep; connection_uptime is not part of the modelled metrics.
stability_monitor ==
    /\ stability_monitor_task = "running"
    /\ stability_monitor_task' = IF running THEN "running" ELSE "none"
    /\ Emit(IF running THEN <<"stability_report">> ELSE << >>)
    /\ UNCHANGED <<conns, next_oid, managed_connections, mc_order, connection_tasks,
                   running, default_config, queue_checks, attempts_made, api_calls,
                   ble_events, fileVars, state_save_task, environment>>

\* AutoConnectManager.save_state_periodically: the sleep ends, _save_state
\* runs, and the loop condition is read again.
save_state_periodically ==
    /\ state_save_task = "running"
    /\ LET saved == save_state(conns, managed_connections, mc_order, state_file,
                               state_file_writable)
       IN  /\ state_file' = saved.file
           /\ last_write' = WriteRecord("save_state_periodically", LiveNow)
           /\ Emit(<<saved.event>>)
    /\ state_save_task' = IF running THEN "running" ELSE "none"
    /\ UNCHANGED <<conns, next_oid, managed_connections, mc_order, connection_tasks,
                   running, default_config, queue_checks, attempts_made, api_calls,
                   ble_events, stability_monitor_task, environment>>

\* AutoConnectManager.__init__ of a new manager on the same state file, the
\* previous manager and its tasks being gone: no callback is registered yet
\* when _load_state emits its events.
new_manager ==
    LET restored == load_state(state_file)
        n == Len(restored)
    IN
    /\ api_calls < MaxApiCalls
    /\ api_calls' = api_calls + 1
    /\ conns' = [o \in 1..n |-> restored[o]]
    /\ next_oid' = n + 1
    /\ managed_connections' =
           [a \in Addrs |->
               IF \E o \in 1..n : restored[o].address = a
               THEN CHOOSE o \in 1..n : restored[o].address = a
               ELSE 0]
    /\ mc_order' = [i \in 1..n |-> restored[i].address]
    /\ connection_tasks' = [a \in Addrs |-> NoTask]
    /\ running' = FALSE
    /\ queue_checks' = 0
    /\ stability_monitor_task' = "none"
    /\ state_save_task' = "none"
    /\ event_callbacks' = FALSE
    /\ emitted' = emit_event(FALSE,
                             IF state_file.kind = "json" THEN <<"state_loaded">>
                             ELSE IF state_file.kind = "truncated"
                                  THEN <<"state_load_error">> ELSE << >>)
    /\ UNCHANGED <<default_config, attempts_made, ble_events, fileVars, addrs,
                   state_file_writable, otherThanAC>>

NextAC ==
    \/ \E a \in addrs, cfg \in {<< >>, <<LinearConfig>>, <<FixedConfig>>} :
           add_managed_device(a, cfg)
    \/ \E a \in addrs : remove_managed_device(a)
    \/ \E a \in addrs : enable_device(a)
    \/ \E a \in addrs : disable_device(a)
    \/ \E a \in addrs : pause_device(a)
    \/ \E o \in DOMAIN conns : pause_deadline_passes(o)
    \/ start
    \/ stop
    \/ \E a \in addrs : connection_manager(a)
    \/ \E a \in addrs : backoff_expires(a)
    \/ \E a \in addrs, r \in {"connected", "refused", "timeout", "error"} :
           attempt_connection(a, r)
    \/ \E a \in addrs, r \in {"success", "timeout", "error"} :
           monitor_connection_health(a, r)
    \/ \E a \in addrs, p \in {"connection", "disconnection"} : on_ble_event(a, p)
    \/ check_connection_queue

\* The manager with its callbacks, its manager-wide tasks and restarts.
NextACLife ==
    \/ NextAC
    \/ register_event_callback
    \/ stability_monitor
    \/ save_state_periodically
    \/ new_manager

\* ========================================================================
\* HFP protocol handler
\* ========================================================================

\* ---- bounds of the model ----
MaxFlow == 3

\* An AT command string is kept split at its first separator: the text is
\* lead \o name \o sep \o args joined by ",".  inds holds what the regular
\* expression of _parse_indicators finds in the text.
Cmd(name, sep, args) ==
    [lead |-> "", name |-> name, sep |-> sep, args |-> args, inds |-> << >>]

\* str.strip() of a command
Strip(cmd) == [cmd EXCEPT !.lead = ""]

\* command.startswith(name \o sep), for the prefixes the handler tests
StartsWith(cmd, name, sep) == cmd.lead = "" /\ cmd.name = name /\ cmd.sep = sep

\* command == name
Equals(cmd, name) == cmd.lead = "" /\ cmd.name = name /\ cmd.sep = ""

\* cmd.command.startswith("+BCS") in analyze_failure
StartsWithBCS(cmd) == cmd.lead = "" /\ cmd.name = "+BCS"

\* The decimal literals int() accepts among the argument texts used here;
\* any other text ("0x80", "?", "1,2") makes int() raise ValueError.
IntLiterals ==
    [text \in {"0", "1", "2", "3", "128", "512"} |->
        CASE text = "0" -> 0 [] text = "1" -> 1 [] text = "2" -> 2
          [] text = "3" -> 3 [] text = "128" -> 128 [] text = "512" -> 512]

\* int(command.split(sep)[1]) is defined: one field, a decimal literal
IsInt(args) == Len(args) = 1 /\ args[1] \in DOMAIN IntLiterals

IntOf(args) == IntLiterals[args[1]]

\* bool(features & bit) for a single-bit mask
HasBit(features, bit) == (features \div bit) % 2 = 1

\* HFPState values
HFPStates ==
    {"DISCONNECTED", "CONNECTING", "SLC_CONNECTING", "CONNECTED",
     "AUDIO_CONNECTING", "AUDIO_CONNECTED", "DISCONNECTING"}

\* HFPFeatures(): all flags false
HFPFeatures ==
    [ec_nr |-> FALSE, three_way_calling |-> FALSE, cli_presentation |-> FALSE,
     voice_recognition |-> FALSE, remote_volume_control |-> FALSE,
     enhanced_call_status |-> FALSE, enhanced_call_control |-> FALSE,
     codec_negotiation |-> FALSE, hf_indicators |-> FALSE, esco_s4 |-> FALSE,
     ag_three_way_calling |-> FALSE, ag_ec_nr |-> FALSE,
     ag_voice_recognition |-> FALSE, ag_inband_ringtone |-> FALSE,
     ag_voice_tag |-> FALSE, ag_reject_call |-> FALSE,
     ag_enhanced_call_status |-> FALSE, ag_enhanced_call_control |-> FALSE,
     ag_extended_error |-> FALSE, ag_codec_negotiation |-> FALSE]

\* HFPProtocolHandler.__init__
HFPProtocolHandler ==
    [state |-> "DISCONNECTED", features |-> HFPFeatures, at_command_flow |-> << >>,
     supported_codecs |-> <<"CVSD">>, selected_codec |-> "CVSD",
     indicators |-> << >>,
     call_state |-> [active |-> FALSE, incoming |-> FALSE, outgoing |-> FALSE]]

\* HFPProtocolHandler._parse_hf_features
parse_hf_features(f, features) ==
    [f EXCEPT !.ec_nr = HasBit(features, 1),
              !.three_way_calling = HasBit(features, 2),
              !.cli_presentation = HasBit(features, 4),
              !.voice_recognition = HasBit(features, 8),
              !.remote_volume_control = HasBit(features, 16),
              !.enhanced_call_status = HasBit(features, 32),
              !.enhanced_call_control = HasBit(features, 64),
              !.codec_negotiation = HasBit(features, 128),
              !.hf_indicators = HasBit(features, 256),
              !.esco_s4 = HasBit(features, 512)]

\* HFPProtocolHandler._parse_ag_features
parse_ag_features(f, features) ==
    [f EXCEPT !.ag_three_way_calling = HasBit(features, 1),
              !.ag_ec_nr = HasBit(features, 2),
              !.ag_voice_recognition = HasBit(features, 4),
              !.ag_inband_ringtone = HasBit(features, 8),
              !.ag_voice_tag = HasBit(features, 16),
              !.ag_reject_call = HasBit(features, 32),
              !.ag_enhanced_call_status = HasBit(features, 64),
              !.ag_enhanced_call_control = HasBit(features, 128),
              !.ag_extended_error = HasBit(features, 256),
              !.ag_codec_negotiation = HasBit(features, 512)]

\* A raised exception leaves the handler as it is; the caller sees it.
Raise(h) == [h |-> h, raised |-> TRUE]
Return(h) == [h |-> h, raised |-> FALSE]

\* HFPProtocolHandler._handle_outgoing_command
handle_outgoing_command(h, command) ==
    IF StartsWith(command, "AT+BRSF", "=")
    THEN IF IsInt(command.args)
         THEN Return([h EXCEPT
                 !.features = parse_hf_features(@, IntOf(command.args)),
                 !.state = "SLC_CONNECTING"])
         ELSE Raise(h)
    ELSE IF Equals(command, "AT+BAC") THEN Return([h EXCEPT !.state = "SLC_CONNECTING"])
    ELSE IF Equals(command, "AT+CMER") THEN Return([h EXCEPT !.state = "CONNECTED"])
    ELSE IF Equals(command, "AT+BCC") THEN Return([h EXCEPT !.state = "AUDIO_CONNECTING"])
    ELSE Return(h)

\* the codec list built from the fields of +BAC:
RECURSIVE CodecList(_)
CodecList(codecs) ==
    IF codecs = << >> THEN << >>
    ELSE (IF Head(codecs) = "1" THEN <<"CVSD">>
          ELSE IF Head(codecs) = "2" THEN <<"mSBC">> ELSE << >>)
         \o CodecList(Tail(codecs))

\* +BCS with the codec ids exchanged.
CodecOfId_Swapped(codec_id) == IF codec_id = 2 THEN "CVSD" ELSE "mSBC"

\* "mSBC" if codec_id == 2 else "CVSD"
CodecOfId(codec_id) == IF codec_id = 2 THEN "mSBC" ELSE "CVSD"

\* HFPProtocolHandler._parse_indicators: one entry per match, a repeated
\* name overwrites the entry and keeps its place in the dict.
RECURSIVE parse_indicators(_, _)
parse_indicators(indicators, matches) ==
    IF matches = << >> THEN indicators
    ELSE LET m == Head(matches)
             entry == [name |-> m[1], range |-> m[2], value |-> 0]
             at == {i \in 1..Len(indicators) : indicators[i].name = m[1]}
         IN  parse_indicators(
                 IF at = {} THEN Append(indicators, entry)
                 ELSE [i \in 1..Len(indicators) |->
                          IF i \in at THEN entry ELSE indicators[i]],
                 Tail(matches))

\* Python's list index: i in -n..n-1, negative ones counted from the end
ListIndex(n, i) == IF i >= 0 THEN i + 1 ELSE n + i + 1

\* HFPProtocolHandler._handle_indicator_event
handle_indicator_event(h, command) ==
    IF Len(command.args) # 2 THEN Return(h)
    ELSE IF ~(IsInt(<<command.args[1]>>) /\ IsInt(<<command.args[2]>>)) THEN Raise(h)
    ELSE LET indicator_idx == IntOf(<<command.args[1]>>)
             value == IntOf(<<command.args[2]>>)
             n == Len(h.indicators)
         IN  IF ~(indicator_idx <= n) THEN Return(h)
             ELSE IF indicator_idx - 1 < -n \/ indicator_idx - 1 >= n THEN Raise(h)
             ELSE LET at == ListIndex(n, indicator_idx - 1)
                      ind_name == h.indicators[at].name
                  IN  Return([h EXCEPT
                          !.indicators[at].value = value,
                          !.call_state =
                              IF ind_name = "call" THEN [@ EXCEPT !.active = (value = 1)]
                              ELSE IF ind_name = "callsetup"
                                   THEN [@ EXCEPT !.incoming = (value = 1),
                                                  !.outgoing = (value = 2)]
                                   ELSE @])

\* HFPProtocolHandler._handle_incoming_command
handle_incoming_command(h, command) ==
    IF StartsWith(command, "+BRSF", ":")
    THEN IF IsInt(command.args)
         THEN Return([h EXCEPT !.features = parse_ag_features(@, IntOf(command.args))])
         ELSE Raise(h)
    ELSE IF StartsWith(command, "+BAC", ":")
    THEN Return([h EXCEPT !.supported_codecs = CodecList(command.args)])
    ELSE IF StartsWith(command, "+BCS", ":")
    THEN IF IsInt(command.args)
         THEN Return([h EXCEPT !.selected_codec = CodecOfId(IntOf(command.args)),
                               !.state = "AUDIO_CONNECTED"])
         ELSE Raise(h)
    ELSE IF StartsWith(command, "+CIND", ":")
    THEN Return([h EXCEPT !.indicators = parse_indicators(@, command.inds)])
    ELSE IF StartsWith(command, "+CIEV", ":")
    THEN handle_indicator_event(h, command)
    ELSE Return(h)

RECURSIVE SumDelays(_)
SumDelays(flow) ==
    IF Len(flow) < 2 THEN 0
    ELSE (flow[2].timestamp - flow[1].timestamp) + SumDelays(Tail(flow))

\* HFPProtocolHandler.analyze_failure (without the command_flow summary)
analyze_failure(h) ==
    LET stateIssues ==
            IF h.state = "SLC_CONNECTING"
            THEN <<"Service Level Connection failed">>
                 \o (IF h.features.codec_negotiation
                        /\ ~\E i \in 1..Len(h.at_command_flow) :
                               StartsWithBCS(h.at_command_flow[i].command)
                     THEN <<"Codec negotiation incomplete">> ELSE << >>)
            ELSE IF h.state = "AUDIO_CONNECTING"
            THEN <<"SCO audio connection failed">>
                 \o (IF (\E i \in 1..Len(h.supported_codecs) :
                             h.supported_codecs[i] = "mSBC")
                        /\ h.selected_codec = "CVSD"
                     THEN <<"mSBC available but not selected">> ELSE << >>)
            ELSE << >>
        n == Len(h.at_command_flow)
        \* avg_delay > 1.0 with avg_delay = sum(cmd_delays) / len(cmd_delays)
        slow == n > 1 /\ SumDelays(h.at_command_flow) > n - 1
    IN  [last_state |-> h.state,
         total_commands |-> n,
         codec_negotiation |->
             h.features.codec_negotiation /\ h.features.ag_codec_negotiation,
         selected_codec |-> h.selected_codec,
         supported_codecs |-> h.supported_codecs,
         likely_issues |->
             stateIssues \o (IF slow THEN <<"Slow command response">> ELSE << >>)]

\* ---- inputs ----
CindReply ==
    [lead |-> "", name |-> "+CIND", sep |-> ":",
     args |-> <<"(\"call\"", "(0", "1))", "(\"callsetup\"", "(0-3))">>,
     inds |-> << <<"call", "0,1">>, <<"callsetup", "0-3">> >>]

\* The trace of the stall-diagnosis scenario, then the codec connection request.
ScenarioD ==
    << [cmd |-> Cmd("AT+BRSF", "=", <<"128">>), dir |-> "TX"],
       [cmd |-> Cmd("+BRSF", ":", <<"512">>), dir |-> "RX"],
       [cmd |-> Cmd("AT+BAC", "=", <<"1", "2">>), dir |-> "TX"],
       [cmd |-> Cmd("AT+CIND", "=", <<"?">>), dir |-> "TX"],
       [cmd |-> CindReply, dir |-> "RX"],
       [cmd |-> Cmd("AT+CMER", "=", <<"3", "0", "0", "1">>), dir |-> "TX"],
       [cmd |-> Cmd("AT+BCC", "", << >>), dir |-> "TX"] >>

\* The commands the environment may feed in any order.
FreeInputs ==
    { [cmd |-> Cmd("AT+BRSF", "=", <<"128">>), dir |-> "TX"],
      [cmd |-> Cmd("AT+BRSF", "=", <<"0x80">>), dir |-> "TX"],
      [cmd |-> Cmd("AT+BAC", "", << >>), dir |-> "TX"],
      [cmd |-> Cmd("AT+CMER", "", << >>), dir |-> "TX"],
      [cmd |-> Cmd("AT+CMER", "=", <<"3", "0", "0", "1">>), dir |-> "TX"],
      [cmd |-> Cmd("AT+BCC", "", << >>), dir |-> "TX"],
      [cmd |-> [Cmd("AT+BCC", "", << >>) EXCEPT !.lead = " "], dir |-> "TX"],
      [cmd |-> Cmd("+BRSF", ":", <<"512">>), dir |-> "RX"],
      [cmd |-> Cmd("+BAC", ":", <<"1", "2">>), dir |-> "RX"],
      [cmd |-> Cmd("+BCS", ":", <<"2">>), dir |-> "RX"],
      [cmd |-> Cmd("+BCS", ":", <<"1">>), dir |-> "RX"],
      [cmd |-> Cmd("+BCS", ":", <<"2">>), dir |-> "TX"],
      [cmd |-> CindReply, dir |-> "RX"],
      [cmd |-> Cmd("+CIEV", ":", <<"1", "1">>), dir |-> "RX"],
      [cmd |-> Cmd("+CIEV", ":", <<"0", "1">>), dir |-> "RX"] }

\* The handler as constructed.
HFPInitial ==
    /\ hfp = HFPProtocolHandler
    /\ hfp_clock = 0
    /\ hfp_last = [cmd |-> Cmd("", "", << >>), dir |-> "", raised |-> FALSE]

\* HFPProtocolHandler.process_at_command, called elapsed seconds after the
\* previous call
process_at_command(command, direction, elapsed) ==
    LET now == hfp_clock + elapsed
        at_cmd == [timestamp |-> now, command |-> Strip(command),
                   direction |-> direction, state |-> hfp.state]
        logged == [hfp EXCEPT !.at_command_flow = Append(@, at_cmd)]
        res == IF direction = "TX" THEN handle_outgoing_command(logged, command)
               ELSE handle_incoming_command(logged, command)
    IN  /\ hfp' = res.h
        /\ hfp_clock' = now
        /\ hfp_last' = [cmd |-> command, dir |-> direction, raised |-> res.raised]
        /\ UNCHANGED hfp_script

\* The next call the environment makes: the next line of the replayed trace
\* if there is one, else any command.
NextInput(in) ==
    LET n == Len(hfp.at_command_flow) IN
    IF hfp_script # << >> THEN n < Len(hfp_script) /\ in = hfp_script[n + 1]
    ELSE n < MaxFlow /\ in \in FreeInputs

\* ---- a long session ----
LongSessionLen == 1001

\* Line i of a long session: +CIND, then one +CIEV after the other.
LongSessionLine(i) ==
    IF i = 1 THEN [cmd |-> CindReply, dir |-> "RX"]
    ELSE [cmd |-> Cmd("+CIEV", ":", <<"1", IF i % 2 = 0 THEN "1" ELSE "0">>),
          dir |-> "RX"]

\* The gateway sends the next line of the long session, one line per second.
NextHFPLong ==
    LET n == Len(hfp.at_command_flow) IN
    /\ n < LongSessionLen
    /\ process_at_command(LongSessionLine(n + 1).cmd, LongSessionLine(n + 1).dir, 1)
    /\ UNCHANGED otherThanHFP

NextHFP ==
    \E in \in FreeInputs \cup {ScenarioD[i] : i \in 1..Len(ScenarioD)}, elapsed \in {0, 2} :
        /\ NextInput(in)
        /\ process_at_command(in.cmd, in.dir, elapsed)
        /\ UNCHANGED otherThanHFP

\* ---- a session with resets ----
MaxResetClock == 3

\* The commands of a session in which the handler is reset.
ResetSessionInputs ==
    { [cmd |-> Cmd("AT+BRSF", "=", <<"128">>), dir |-> "TX"],
      [cmd |-> Cmd("+BRSF", ":", <<"512">>), dir |-> "RX"],
      [cmd |-> Cmd("+BAC", ":", <<"1", "2">>), dir |-> "RX"],
      [cmd |-> Cmd("+BCS", ":", <<"2">>), dir |-> "RX"],
      [cmd |-> CindReply, dir |-> "RX"] }

\* HFPProtocolHandler.get_state_info
get_state_info(h) ==
    [state |-> h.state,
     hf_codec_negotiation |-> h.features.codec_negotiation,
     hf_wideband |-> \E i \in 1..Len(h.supported_codecs) : h.supported_codecs[i] = "mSBC",
     hf_volume_control |-> h.features.remote_volume_control,
     ag_codec_negotiation |-> h.features.ag_codec_negotiation,
     ag_inband_ringtone |-> h.features.ag_inband_ringtone,
     codec |-> h.selected_codec,
     supported_codecs |-> h.supported_codecs,
     call_state |-> h.call_state,
     indicators |-> h.indicators]

\* HFPProtocolHandler.reset
reset ==
    /\ hfp_clock <= MaxResetClock
    /\ hfp' = [hfp EXCEPT
                 !.state = "DISCONNECTED",
                 !.at_command_flow = << >>,
                 !.supported_codecs = <<"CVSD">>,
                 !.selected_codec = "CVSD",
                 !.indicators = << >>,
                 !.call_state = [active |-> FALSE, incoming |-> FALSE, outgoing |-> FALSE]]
    /\ hfp_last' = [cmd |-> Cmd("", "", << >>), dir |-> "reset", raised |-> FALSE]
    /\ UNCHANGED <<hfp_clock, hfp_script>>

NextHFPReset ==
    \/ \E in \in ResetSessionInputs :
          /\ NextInput(in)
          /\ process_at_command(in.cmd, in.dir, 1)
          /\ UNCHANGED otherThanHFP
    \/ reset /\ UNCHANGED otherThanHFP

\* ========================================================================
\* H5 transport (next_steps/rtk_firmware_loader.py, class H5Protocol)
\* ========================================================================

\* ---- bounds of the model ----
MaxPayloadLen == 2
MaxH5Calls == 4

\* The payload bytes the environment uses: an ordinary byte and the SLIP
\* delimiter.
PayloadBytes == {1, 192}

\* The bits flipped in the checksum byte of a frame that is corrupted on the
\* wire: the lowest bit, the highest bit, all bits.
ChecksumFlips == {1, 128, 255}

\* The SLIP delimiter 0xC0.
SLIP == 192

\* ---- bit operations on naturals ----
RECURSIVE BitXor(_, _)
BitXor(a, b) ==
    IF a = 0 THEN b
    ELSE IF b = 0 THEN a
    ELSE ((a + b) % 2) + 2 * BitXor(a \div 2, b \div 2)

RECURSIVE BitAnd(_, _)
BitAnd(a, b) ==
    IF a = 0 \/ b = 0 THEN 0
    ELSE ((a % 2) * (b % 2)) + 2 * BitAnd(a \div 2, b \div 2)

RECURSIVE BitOr(_, _)
BitOr(a, b) ==
    IF a = 0 THEN b
    ELSE IF b = 0 THEN a
    ELSE (IF a % 2 = 1 \/ b % 2 = 1 THEN 1 ELSE 0) + 2 * BitOr(a \div 2, b \div 2)

\* class H5PacketType(IntEnum)
H5PacketType ==
    [ACK |-> 0, HCI_COMMAND |-> 1, HCI_ACLDATA |-> 2, HCI_SCODATA |-> 3,
     HCI_EVENT |-> 4, VENDOR |-> 14, LINK_CONTROL |-> 15]

H5PacketTypeValues == {H5PacketType[n] : n \in DOMAIN H5PacketType}

\* H5Protocol.__init__
H5Protocol == [seq_num |-> 0, ack_num |-> 0, sliding_window |-> << >>]

\* The running XOR of the loops "for b in ...: checksum ^= b"
RECURSIVE XorOver(_)
XorOver(bytes) ==
    IF bytes = << >> THEN 0 ELSE BitXor(Head(bytes), XorOver(Tail(bytes)))

\* A variant of calc_checksum that leaves the payload out.
calc_checksum_HeaderOnly(data) == XorOver(SubSeq(data, 2, 4))

\* The checksum parse_packet computes over data[1:-2]; the delimiters and
\* the checksum byte itself are left out.
calc_checksum(data) == XorOver(SubSeq(data, 2, Len(data) - 2))

\* H5Protocol.create_packet: the frame and the endpoint afterwards
create_packet(h, pkt_type, payload) ==
    LET header == << SLIP,
                     BitOr(h.seq_num * 8, BitAnd(h.ack_num, 7)),
                     BitAnd(pkt_type, 15),
                     BitAnd(Len(payload), 255) >>
        checksum == XorOver(Tail(header) \o payload)
    IN  [packet |-> header \o payload \o <<checksum, SLIP>>,
         h |-> [h EXCEPT !.seq_num = (h.seq_num + 1) % 8]]

\* What a parse_packet call yields: a (type, payload) pair or a ValueError.
Parsed(h, pkt_type, payload) ==
    [ok |-> TRUE, pkt_type |-> pkt_type, payload |-> payload, error |-> "", h |-> h]

ParseError(h, message) ==
    [ok |-> FALSE, pkt_type |-> 0, payload |-> << >>, error |-> message, h |-> h]

\* H5Protocol.parse_packet
parse_packet(h, data) ==
    IF Len(data) < 6 \/ data[1] # SLIP \/ data[Len(data)] # SLIP
    THEN ParseError(h, "Invalid H5 packet")
    ELSE
        LET seq == BitAnd(data[2] \div 8, 7)
            pkt_type == BitAnd(data[3], 15)
            payload == SubSeq(data, 5, Len(data) - 2)
            checksum == data[Len(data) - 1]
            acked == [h EXCEPT !.ack_num = seq]
        IN  IF calc_checksum(data) # checksum
            THEN ParseError(h, "Checksum mismatch")
            ELSE IF pkt_type \notin H5PacketTypeValues
            THEN ParseError(acked, "not a valid H5PacketType")
            ELSE Parsed(acked, pkt_type, payload)

\* ---- inputs ----
RECURSIVE SeqsUpTo(_, _)
SeqsUpTo(S, n) ==
    IF n = 0 THEN {<< >>}
    ELSE LET shorter == SeqsUpTo(S, n - 1)
         IN  shorter \cup {Append(s, x) : s \in shorter, x \in S}

Payloads == SeqsUpTo(PayloadBytes, MaxPayloadLen)

NoH5Call ==
    [op |-> "none", fed |-> "", pkt_type |-> 0, payload |-> << >>,
     ok |-> FALSE, error |-> "", calls |-> 0]

\* The endpoint as constructed; nothing is on the wire yet.
H5Initial ==
    /\ h5 = H5Protocol
    /\ h5_wire = << >>
    /\ h5_made = [pkt_type |-> 0, payload |-> << >>]
    /\ h5_last = NoH5Call

\* A caller builds a frame; it is now the frame on the wire.
h5_create_packet(pkt_type, payload) ==
    LET res == create_packet(h5, pkt_type, payload) IN
    /\ h5' = res.h
    /\ h5_wire' = res.packet
    /\ h5_made' = [pkt_type |-> pkt_type, payload |-> payload]
    /\ h5_last.calls < MaxH5Calls
    /\ h5_last' = [NoH5Call EXCEPT !.op = "create_packet",
                                   !.pkt_type = pkt_type, !.payload = payload,
                                   !.calls = h5_last.calls + 1]

\* parse_packet is handed a frame; fed says which: the frame on the wire as
\* created, that frame with another checksum byte, or that frame cut short.
h5_parse_packet(fed, data) ==
    LET res == parse_packet(h5, data) IN
    /\ h5' = res.h
    /\ h5_last.calls < MaxH5Calls
    /\ h5_last' = [op |-> "parse_packet", fed |-> fed, pkt_type |-> res.pkt_type,
                   payload |-> res.payload, ok |-> res.ok, error |-> res.error,
                   calls |-> h5_last.calls + 1]
    /\ UNCHANGED <<h5_wire, h5_made>>

NextH5 ==
    \/ \E t \in H5PacketTypeValues, p \in Payloads :
          h5_create_packet(t, p) /\ UNCHANGED otherThanH5
    \/ /\ h5_wire # << >>
       /\ h5_parse_packet("created", h5_wire)
       /\ UNCHANGED otherThanH5
    \/ \E flip \in ChecksumFlips :
          /\ h5_wire # << >>
          /\ h5_parse_packet("checksum_altered",
                             [h5_wire EXCEPT ![Len(h5_wire) - 1] = BitXor(@, flip)])
          /\ UNCHANGED otherThanH5
    \/ /\ h5_wire # << >>
       /\ h5_parse_packet("cut_short", SubSeq(h5_wire, 1, Len(h5_wire) - 1))
       /\ UNCHANGED otherThanH5

\* ---- frames of the peer ----
\* The sequence numbers, type nibbles and payloads of the frames the peer
\* sends: 5 is a type nibble that H5PacketType does not define.
PeerSeqs == {0, 3, 7}
PeerTypes == {H5PacketType.HCI_EVENT, 5}
PeerPayloads == {<< >>, <<1>>}

\* parse_packet is handed a frame the peer built to the same layout, with
\* the peer's own sequence number and a correct checksum.
h5_parse_peer_packet(peer_seq, pkt_type, payload) ==
    h5_parse_packet("peer",
        create_packet([H5Protocol EXCEPT !.seq_num = peer_seq], pkt_type, payload).packet)

NextH5Link ==
    \/ NextH5
    \/ \E peer_seq \in PeerSeqs, pkt_type \in PeerTypes, payload \in PeerPayloads :
          h5_parse_peer_packet(peer_seq, pkt_type, payload) /\ UNCHANGED otherThanH5

\* ========================================================================
\* RTL8723D firmware loader (next_steps/rtk_firmware_loader.py,
\* class RTL8723DFirmwareLoader)
\* ========================================================================

\* ---- bounds of the model ----
MaxChunks == 2
MaxRuns == 2

\* ---- opcodes and values of the source ----
HCI_Reset == 3075
HCI_Read_Local_Version_Information == 4097
HCI_Set_Event_Mask == 3073
VendorDownload == 64544
VendorConfig == 64609
VendorBaudRate == 64535
VendorScoRouting == 64539
PatchedSubversion == 34595
DefaultBaud == 115200
HighSpeedBaud == 1500000

\* The raw byte strings written without H5 framing.
download_cmd == <<1, 0, 252, 1, 1>>
launch_cmd == <<1, 0, 252, 1, 0>>

\* What travels to the controller: a framed HCI command or raw bytes.
HciCommand(opcode) == [kind |-> "hci", opcode |-> opcode, bytes |-> << >>]
RawWrite(bytes) == [kind |-> "raw", opcode |-> 0, bytes |-> bytes]

\* A variant of the comparison that never finds the controller patched.
IsPatched_Never(subversion) == FALSE

\* The comparison version['lmp_subversion'] == 0x8723
IsPatched(subversion) == subversion = PatchedSubversion

\* RTL8723DFirmwareLoader.__init__
RTL8723DFirmwareLoader == [baud_rate |-> DefaultBaud, serial |-> "None", serial_baud |-> 0]

\* No invocation has been made.
FWInitial ==
    /\ fw = RTL8723DFirmwareLoader
    /\ fw_pc = "idle"
    /\ fw_sent = << >>
    /\ fw_version = 0
    /\ fw_mark = 0
    /\ fw_chunks = 0
    /\ fw_loaded = "None"
    /\ fw_result = "None"
    /\ fw_runs = 0
    /\ fw_failed = {}

\* The answers the controller (or a mock of it) may give to a command:
\* a well-formed response, or none in time / a frame that does not parse.
Outcomes == {"ok", "error"}

\* The LMP subversions a controller reports: the patched one and another.
Subversions == {PatchedSubversion, 4608}

\* The answers to a version read: a well-formed response with its LMP
\* subversion, a response shorter than 14 bytes, or an error as above.
VersionOutcomes ==
    {[kind |-> "ok", lmp_subversion |-> s] : s \in Subversions}
        \cup {[kind |-> "short", lmp_subversion |-> 0],
              [kind |-> "error", lmp_subversion |-> 0]}

\* The step timed out or was answered unexpectedly (ok false), or succeeded.
StepDone(step, ok) == fw_failed' = IF ok THEN fw_failed ELSE fw_failed \cup {step}

\* setup_device returns result; its finally clause closes the port.
SetupReturns(result) ==
    /\ fw' = [fw EXCEPT !.serial = IF @ = "None" THEN "None" ELSE "closed"]
    /\ fw_result' = result
    /\ fw_pc' = "idle"

\* load_firmware returns False (its except clause, or the unchanged
\* version), so setup_device returns False.
LoadFails ==
    /\ fw_loaded' = "False"
    /\ SetupReturns("False")

\* load_firmware returns True and setup_device goes on: to the baud rate
\* change unless the loader already runs at high speed.
LoadSucceeds ==
    /\ fw_loaded' = "True"
    /\ fw_pc' = IF fw.baud_rate # HighSpeedBaud THEN "change_baud_rate" ELSE "enable_sco"
    /\ UNCHANGED <<fw, fw_result>>

\* setup_device is invoked: connect() opens the port or fails.
setup_device(opened) ==
    /\ fw_pc = "idle"
    /\ fw_runs < MaxRuns
    /\ fw_runs' = fw_runs + 1
    /\ fw_failed' = IF opened THEN {} ELSE {"connect"}
    /\ fw_sent' = << >>
    /\ fw_version' = 0
    /\ fw_mark' = 0
    /\ fw_chunks' = 0
    /\ fw_loaded' = "None"
    /\ IF opened
       THEN /\ fw' = [fw EXCEPT !.serial = "open", !.serial_baud = fw.baud_rate]
            /\ fw_pc' = "hci_reset"
            /\ fw_result' = "None"
       ELSE /\ fw' = fw
            /\ fw_pc' = "idle"
            /\ fw_result' = "False"

\* load_firmware step 1: HCI Reset
hci_reset(outcome) ==
    /\ fw_pc = "hci_reset"
    /\ StepDone("hci_reset", outcome = "ok")
    /\ fw_sent' = Append(fw_sent, HciCommand(HCI_Reset))
    /\ IF outcome = "ok"
       THEN fw_pc' = "read_version" /\ UNCHANGED <<fw, fw_loaded, fw_result>>
       ELSE LoadFails
    /\ UNCHANGED <<fw_version, fw_mark, fw_chunks, fw_runs>>

\* load_firmware step 2: the version read and the early return
read_version(outcome) ==
    /\ fw_pc = "read_version"
    /\ StepDone("read_version", outcome.kind = "ok")
    /\ fw_sent' = Append(fw_sent, HciCommand(HCI_Read_Local_Version_Information))
    /\ IF outcome.kind = "ok"
       THEN /\ fw_version' = outcome.lmp_subversion
            /\ fw_mark' = Len(fw_sent) + 1
            /\ IF IsPatched(outcome.lmp_subversion)
               THEN LoadSucceeds
               ELSE fw_pc' = "enter_download" /\ UNCHANGED <<fw, fw_loaded, fw_result>>
       ELSE LoadFails /\ UNCHANGED <<fw_version, fw_mark>>
    /\ UNCHANGED <<fw_chunks, fw_runs>>

\* load_firmware steps 3 and 4: the enter-download bytes, then the firmware
\* file is read and its header parsed; chunks is the number of 252-byte
\* chunks of the body, or -1 if the file is missing or shorter than a header.
enter_download(chunks) ==
    /\ fw_pc = "enter_download"
    /\ StepDone("enter_download", chunks >= 0)
    /\ fw_sent' = Append(fw_sent, RawWrite(download_cmd))
    /\ IF chunks < 0
       THEN LoadFails /\ UNCHANGED fw_chunks
       ELSE /\ fw_chunks' = chunks
            /\ fw_pc' = IF chunks > 0 THEN "download_chunk" ELSE "load_config"
            /\ UNCHANGED <<fw, fw_loaded, fw_result>>
    /\ UNCHANGED <<fw_version, fw_mark, fw_runs>>

\* load_firmware step 4: one pass of the chunk loop
download_chunk(outcome) ==
    /\ fw_pc = "download_chunk"
    /\ StepDone("download_chunk", outcome = "ok")
    /\ fw_sent' = Append(fw_sent, HciCommand(VendorDownload))
    /\ IF outcome = "ok"
       THEN /\ fw_chunks' = fw_chunks - 1
            /\ fw_pc' = IF fw_chunks > 1 THEN "download_chunk" ELSE "load_config"
            /\ UNCHANGED <<fw, fw_loaded, fw_result>>
       ELSE LoadFails /\ UNCHANGED fw_chunks
    /\ UNCHANGED <<fw_version, fw_mark, fw_runs>>

\* load_firmware steps 5 and 6: the config file is read and sent, then the
\* launch bytes are written.
load_config(readable, outcome) ==
    /\ fw_pc = "load_config"
    /\ StepDone("load_config", readable /\ outcome = "ok")
    /\ IF ~readable
       THEN LoadFails /\ UNCHANGED fw_sent
       ELSE IF outcome = "ok"
       THEN /\ fw_sent' = fw_sent \o <<HciCommand(VendorConfig), RawWrite(launch_cmd)>>
            /\ fw_pc' = "final_reset"
            /\ UNCHANGED <<fw, fw_loaded, fw_result>>
       ELSE /\ fw_sent' = Append(fw_sent, HciCommand(VendorConfig))
            /\ LoadFails
    /\ UNCHANGED <<fw_version, fw_mark, fw_chunks, fw_runs>>

\* load_firmware step 7: the final HCI Reset
final_reset(outcome) ==
    /\ fw_pc = "final_reset"
    /\ StepDone("final_reset", outcome = "ok")
    /\ fw_sent' = Append(fw_sent, HciCommand(HCI_Reset))
    /\ IF outcome = "ok"
       THEN fw_pc' = "verify_version" /\ UNCHANGED <<fw, fw_loaded, fw_result>>
       ELSE LoadFails
    /\ UNCHANGED <<fw_version, fw_mark, fw_chunks, fw_runs>>

\* load_firmware: the version is read again and compared with the first
verify_version(outcome) ==
    /\ fw_pc = "verify_version"
    /\ StepDone("verify_version", outcome.kind = "ok" /\ outcome.lmp_subversion # fw_version)
    /\ fw_sent' = Append(fw_sent, HciCommand(HCI_Read_Local_Version_Information))
    /\ IF outcome.kind = "ok" /\ outcome.lmp_subversion # fw_version
       THEN LoadSucceeds
       ELSE LoadFails
    /\ UNCHANGED <<fw_version, fw_mark, fw_chunks, fw_runs>>

\* change_baud_rate, up to the reconfiguration of the UART; an error of the
\* vendor command is not handled there and ends setup_device.
change_baud_rate(outcome) ==
    /\ fw_pc = "change_baud_rate"
    /\ StepDone("change_baud_rate", outcome = "ok")
    /\ fw_sent' = Append(fw_sent, HciCommand(VendorBaudRate))
    /\ IF outcome = "ok"
       THEN /\ fw' = [fw EXCEPT !.serial_baud = HighSpeedBaud, !.baud_rate = HighSpeedBaud]
            /\ fw_pc' = "test_baud_rate"
            /\ UNCHANGED fw_result
       ELSE SetupReturns("False")
    /\ UNCHANGED <<fw_version, fw_mark, fw_chunks, fw_loaded, fw_runs>>

\* change_baud_rate: the version read at the new rate.  An exception is
\* caught there and turned into the result False; setup_device does not look
\* at what change_baud_rate returns.
test_baud_rate(outcome) ==
    /\ fw_pc = "test_baud_rate"
    /\ StepDone("test_baud_rate", outcome = "ok")
    /\ fw_sent' = Append(fw_sent, HciCommand(HCI_Read_Local_Version_Information))
    /\ fw_pc' = "enable_sco"
    /\ UNCHANGED <<fw, fw_result, fw_version, fw_mark, fw_chunks, fw_loaded, fw_runs>>

\* setup_device: enable SCO over HCI
enable_sco(outcome) ==
    /\ fw_pc = "enable_sco"
    /\ StepDone("enable_sco", outcome = "ok")
    /\ fw_sent' = Append(fw_sent, HciCommand(VendorScoRouting))
    /\ IF outcome = "ok"
       THEN fw_pc' = "set_event_mask" /\ UNCHANGED <<fw, fw_result>>
       ELSE SetupReturns("False")
    /\ UNCHANGED <<fw_version, fw_mark, fw_chunks, fw_loaded, fw_runs>>

\* setup_device: set the event mask and return
set_event_mask(outcome) ==
    /\ fw_pc = "set_event_mask"
    /\ StepDone("set_event_mask", outcome = "ok")
    /\ fw_sent' = Append(fw_sent, HciCommand(HCI_Set_Event_Mask))
    /\ SetupReturns(IF outcome = "ok" THEN "True" ELSE "False")
    /\ UNCHANGED <<fw_version, fw_mark, fw_chunks, fw_loaded, fw_runs>>

NextFW ==
    \/ \E opened \in BOOLEAN : setup_device(opened) /\ UNCHANGED otherThanFW
    \/ \E outcome \in Outcomes : hci_reset(outcome) /\ UNCHANGED otherThanFW
    \/ \E outcome \in VersionOutcomes :
          read_version(outcome) /\ UNCHANGED otherThanFW
    \/ \E chunks \in -1..MaxChunks : enter_download(chunks) /\ UNCHANGED otherThanFW
    \/ \E outcome \in Outcomes : download_chunk(outcome) /\ UNCHANGED otherThanFW
    \/ \E readable \in BOOLEAN, outcome \in Outcomes :
          load_config(readable, outcome) /\ UNCHANGED otherThanFW
    \/ \E outcome \in Outcomes : final_reset(outcome) /\ UNCHANGED otherThanFW
    \/ \E outcome \in VersionOutcomes :
          verify_version(outcome) /\ UNCHANGED otherThanFW
    \/ \E outcome \in Outcomes : change_baud_rate(outcome) /\ UNCHANGED otherThanFW
    \/ \E outcome \in Outcomes : test_baud_rate(outcome) /\ UNCHANGED otherThanFW
    \/ \E outcome \in Outcomes : enable_sco(outcome) /\ UNCHANGED otherThanFW
    \/ \E outcome \in Outcomes : set_event_mask(outcome) /\ UNCHANGED otherThanFW

\* ========================================================================
\* Hex pattern matcher (analyzers/hex_pattern_matcher.py)
\* ========================================================================

\* ---- bounds of the model ----
MaxDataLen == 4

\* The byte values of the analysed inputs.
PatternBytes == {1, 2, 3}

\* The input of the pattern-analyzer scenario: 01 02 03, three times.
ScenarioB == <<1, 2, 3, 1, 2, 3, 1, 2, 3>>

\* HexPatternMatcher.__init__; the second configuration is the default one.
MatcherConfigs ==
    { [min_pattern_length |-> 2, max_pattern_length |-> 8],
      [min_pattern_length |-> 2, max_pattern_length |-> 32],
      [min_pattern_length |-> 1, max_pattern_length |-> 2] }

HexDigits ==
    <<"0", "1", "2", "3", "4", "5", "6", "7", "8", "9", "a", "b", "c", "d", "e", "f">>

\* bytes.hex()
RECURSIVE Hex(_)
Hex(bytes) ==
    IF bytes = << >> THEN ""
    ELSE HexDigits[(Head(bytes) \div 16) + 1] \o HexDigits[(Head(bytes) % 16) + 1]
         \o Hex(Tail(bytes))

\* data[at:at + length], at counted from 0
Slice(data, at, length) == SubSeq(data, at + 1, at + length)

\* The loop of _find_pattern_positions from offset at on: every offset
\* where the pattern occurs, overlapping occurrences included.
RECURSIVE PositionsFrom(_, _, _)
PositionsFrom(data, pattern, at) ==
    IF at + Len(pattern) > Len(data) THEN << >>
    ELSE IF Slice(data, at, Len(pattern)) = pattern
         THEN <<at>> \o PositionsFrom(data, pattern, at + 1)
         ELSE PositionsFrom(data, pattern, at + 1)

\* HexPatternMatcher._find_pattern_positions
find_pattern_positions(data, pattern) == PositionsFrom(data, pattern, 0)

\* dataclass Pattern, as _find_all_patterns builds it
Pattern(data, pattern_bytes, positions) ==
    [pattern |-> pattern_bytes,
     hex_pattern |-> Hex(pattern_bytes),
     positions |-> positions,
     length |-> Len(pattern_bytes),
     count |-> Len(positions),
     frequency |-> Quotient(Len(positions), Len(data) - Len(pattern_bytes) + 1)]

\* The two nested loops of _find_all_patterns, from (pattern_len, at) on;
\* patterns is the dict built so far, in insertion order.
RECURSIVE ScanPatterns(_, _, _, _, _)
ScanPatterns(m, data, pattern_len, at, patterns) ==
    IF pattern_len >= Min(m.max_pattern_length + 1, (Len(data) \div 2) + 1)
    THEN patterns
    ELSE IF at >= Len(data) - pattern_len + 1
    THEN ScanPatterns(m, data, pattern_len + 1, 0, patterns)
    ELSE LET pattern_bytes == Slice(data, at, pattern_len)
             known == \E i \in 1..Len(patterns) : patterns[i].pattern = pattern_bytes
             positions == find_pattern_positions(data, pattern_bytes)
         IN  IF ~known /\ Len(positions) >= 2
             THEN ScanPatterns(m, data, pattern_len, at + 1,
                               Append(patterns, Pattern(data, pattern_bytes, positions)))
             ELSE ScanPatterns(m, data, pattern_len, at + 1, patterns)

\* ---- sorted(..., reverse=True): stable, greatest key first ----
KeyLess(a, b) == a[1] < b[1] \/ (a[1] = b[1] /\ a[2] < b[2])

FirstMaxIndex(keys) ==
    CHOOSE i \in 1..Len(keys) :
        /\ \A j \in 1..Len(keys) : ~KeyLess(keys[i], keys[j])
        /\ \A j \in 1..(i - 1) : KeyLess(keys[j], keys[i])

RemoveAt(seq, i) == SubSeq(seq, 1, i - 1) \o SubSeq(seq, i + 1, Len(seq))

RECURSIVE SortedReverse(_, _)
SortedReverse(seq, keys) ==
    IF seq = << >> THEN << >>
    ELSE LET i == FirstMaxIndex(keys)
         IN  <<seq[i]>> \o SortedReverse(RemoveAt(seq, i), RemoveAt(keys, i))

\* The byte offsets one occurrence covers.
PosRange(pos, length) == pos..(pos + length - 1)

\* The loop of _filter_overlapping_patterns over the sorted patterns.
RECURSIVE FilterFrom(_, _, _)
FilterFrom(sorted_patterns, filtered, covered_positions) ==
    IF sorted_patterns = << >> THEN filtered
    ELSE LET pattern == Head(sorted_patterns)
             new_positions ==
                 UNION { PosRange(pattern.positions[i], pattern.length) :
                           i \in { j \in 1..Len(pattern.positions) :
                                     ~(PosRange(pattern.positions[j], pattern.length)
                                           \subseteq covered_positions) } }
         IN  IF new_positions # {}
             THEN FilterFrom(Tail(sorted_patterns), Append(filtered, pattern),
                             covered_positions \cup new_positions)
             ELSE FilterFrom(Tail(sorted_patterns), filtered, covered_positions)

\* A variant of the filter that keeps every pattern.
filter_KeepAll(patterns) == patterns

\* HexPatternMatcher._filter_overlapping_patterns
filter_overlapping_patterns(patterns) ==
    FilterFrom(SortedReverse(patterns,
                             [i \in 1..Len(patterns) |->
                                 <<patterns[i].length, patterns[i].count>>]),
               << >>, {})

\* HexPatternMatcher._find_all_patterns
find_all_patterns(m, data) ==
    filter_overlapping_patterns(ScanPatterns(m, data, m.min_pattern_length, 0, << >>))

\* The byte offsets the occurrences of one pattern cover.
Covered(pattern) ==
    UNION { PosRange(pattern.positions[j], pattern.length) :
              j \in 1..Len(pattern.positions) }

\* HexPatternMatcher._calculate_coverage, as an exact fraction
calculate_coverage(data, patterns) ==
    IF data = << >> THEN <<0, 1>>
    ELSE LET covered_positions ==
                 UNION { Covered(patterns[i]) : i \in 1..Len(patterns) }
         IN  Quotient(Cardinality(covered_positions), Len(data))

\* dataclass PatternMatch; most_frequent is a sequence of at most one
\* pattern (empty for None).  The entropy field, a floating-point logarithm,
\* is left out.
PatternMatch(data, patterns, coverage) ==
    [data |-> data,
     hex_data |-> Hex(data),
     patterns |-> patterns,
     most_frequent |-> IF patterns = << >> THEN << >> ELSE <<patterns[1]>>,
     coverage |-> coverage]

\* HexPatternMatcher.analyze
analyze(m, data) ==
    IF data = << >> \/ Len(data) < m.min_pattern_length
    THEN PatternMatch(data, << >>, <<0, 1>>)
    ELSE LET patterns == find_all_patterns(m, data)
             sorted_patterns ==
                 SortedReverse(patterns,
                               [i \in 1..Len(patterns) |->
                                   <<patterns[i].count, patterns[i].length>>])
         IN  PatternMatch(data, sorted_patterns, calculate_coverage(data, sorted_patterns))

\* ---- inputs ----
AnalysedInputs == SeqsUpTo(PatternBytes, MaxDataLen) \cup {ScenarioB}

\* Nothing has been analysed yet.
NoPatternMatch == [analysed |-> FALSE, match |-> PatternMatch(<< >>, << >>, <<0, 1>>)]

\* A matcher with the default lengths, and no analysis made.
PatInitial ==
    /\ pat_matcher = [min_pattern_length |-> 2, max_pattern_length |-> 32]
    /\ pat_result = NoPatternMatch

\* A matcher is constructed with other pattern lengths.
new_matcher(m) ==
    /\ m # pat_matcher
    /\ pat_matcher' = m
    /\ pat_result' = NoPatternMatch

\* The matcher analyses one input.
pattern_analyze(data) ==
    /\ pat_result' = [analysed |-> TRUE, match |-> analyze(pat_matcher, data)]
    /\ UNCHANGED pat_matcher

NextPat ==
    \/ \E m \in MatcherConfigs : new_matcher(m) /\ UNCHANGED otherThanPat
    \/ \E data \in AnalysedInputs : pattern_analyze(data) /\ UNCHANGED otherThanPat

\* ========================================================================
\* Security manager and bond store (interfaces/security_manager.py)
\* ========================================================================

\* ---- bounds of the model ----
MaxBondOps == 3

BondAddrs == {"AA", "BB"}

\* The XOR keys callers set; the two stores may be given different ones.
XorKeys == {"k1", "k2"}

\* class SecurityLevel(Enum): member name -> value
SecurityLevel ==
    [NO_SECURITY |-> 0, UNAUTHENTICATED_ENCRYPTION |-> 1,
     AUTHENTICATED_ENCRYPTION |-> 2, AUTHENTICATED_LE_SECURE_CONNECTIONS |-> 3]

\* SecurityLevel(value): the member with that value; none makes the call raise.
SecurityLevelOf(value) ==
    IF \E n \in DOMAIN SecurityLevel : SecurityLevel[n] = value
    THEN CHOOSE n \in DOMAIN SecurityLevel : SecurityLevel[n] = value
    ELSE "ValueError"

\* class PairingMethod(Enum)
PairingMethod == {"just_works", "passkey_entry", "numeric_comparison", "out_of_band"}

\* dataclass BondInfo with its defaults
BondInfo(address) ==
    [address |-> address, ltk |-> "None", irk |-> "None", csrk |-> "None",
     security_level |-> "NO_SECURITY", authenticated |-> FALSE,
     xor_key |-> "None", custom_key |-> "None"]

\* ---- the bonds dict: bonds in insertion order, at most one per address ----
HasBond(bonds, address) == \E i \in 1..Len(bonds) : bonds[i].address = address

BondIndex(bonds, address) == CHOOSE i \in 1..Len(bonds) : bonds[i].address = address

\* bonds[address] = bond
PutBond(bonds, bond) ==
    IF HasBond(bonds, bond.address)
    THEN [bonds EXCEPT ![BondIndex(bonds, bond.address)] = bond]
    ELSE Append(bonds, bond)

\* del bonds[address]
DelBond(bonds, address) == SelectSeq(bonds, LAMBDA b : b.address # address)

\* A variant of the entry that also carries the XOR key.
SavedEntry_WithKey(bond) ==
    [address |-> bond.address,
     security_level |-> SecurityLevel[bond.security_level],
     authenticated |-> bond.authenticated,
     xor_key |-> bond.xor_key]

\* The entry _save_bonds writes for one bond.
SavedEntry(bond) ==
    [address |-> bond.address,
     security_level |-> SecurityLevel[bond.security_level],
     authenticated |-> bond.authenticated]

\* The bond file: missing, a JSON object (its entries in order), or the
\* leftover of a write that broke off.
MissingFile == [kind |-> "missing", entries |-> << >>]
JsonFile(entries) == [kind |-> "json", entries |-> entries]
BrokenFile == [kind |-> "broken", entries |-> << >>]

\* How a save may end: written; failed before the file was opened (the file
\* stays as it was); failed after open() truncated the file.
SaveOutcomes == {"written", "not_opened", "broken_off"}

\* SecurityManager._save_bonds: the file afterwards
save_bonds(bonds, file, outcome) ==
    IF outcome = "written"
    THEN JsonFile([i \in 1..Len(bonds) |-> SavedEntry(bonds[i])])
    ELSE IF outcome = "not_opened" THEN file
    ELSE BrokenFile

\* The loop of _load_bonds over the entries; an entry whose security level
\* is no member of the enum ends the loop with the bonds read so far.
RECURSIVE LoadEntries(_, _)
LoadEntries(entries, bonds) ==
    IF entries = << >> THEN bonds
    ELSE LET e == Head(entries)
             level == SecurityLevelOf(e.security_level)
         IN  IF level = "ValueError" THEN bonds
             ELSE LoadEntries(Tail(entries),
                              PutBond(bonds, [BondInfo(e.address) EXCEPT
                                                !.security_level = level,
                                                !.authenticated = e.authenticated]))

\* SecurityManager._load_bonds into the empty dict of __init__
load_bonds(file) ==
    IF file.kind = "json" THEN LoadEntries(file.entries, << >>) ELSE << >>

\* SecurityManager._perform_passkey_pairing: the bonds afterwards
perform_passkey_pairing(bonds, device_address) ==
    PutBond(bonds, [BondInfo(device_address) EXCEPT
                      !.security_level = "AUTHENTICATED_ENCRYPTION",
                      !.authenticated = TRUE])

\* SecurityManager.request_pairing: whether it pairs (and saves), and what
\* it returns; confirmed is the answer of the numeric-comparison callback.
request_pairing(callbacks, method, confirmed) ==
    IF method = "passkey_entry" /\ "passkey_request" \in callbacks
    THEN [pairs |-> TRUE, result |-> TRUE]
    ELSE IF method = "numeric_comparison" /\ "numeric_comparison" \in callbacks
    THEN [pairs |-> FALSE, result |-> confirmed]
    ELSE [pairs |-> FALSE, result |-> TRUE]

\* SecurityManager.handle_security_request: whether it asks for pairing
NeedsPairing(bonds, device_address, security_level) ==
    \/ ~HasBond(bonds, device_address)
    \/ SecurityLevel[bonds[BondIndex(bonds, device_address)].security_level]
           < SecurityLevel[security_level]

\* SecurityManager.set_xor_key: the bonds afterwards
set_xor_key(bonds, device_address, xor_key) ==
    LET present == IF HasBond(bonds, device_address) THEN bonds
                   ELSE Append(bonds, BondInfo(device_address))
    IN  [present EXCEPT ![BondIndex(present, device_address)].xor_key = xor_key]

\* Two managers, each with its own bond file, no bond and no callback.
BondInitial ==
    /\ sm_bonds = << >> /\ sm_bonds2 = << >>
    /\ sm_file = MissingFile /\ sm_file2 = MissingFile
    /\ sm_callbacks = {}
    /\ sm_ops = 0
    /\ sm_last = [op |-> "none", address |-> "", result |-> FALSE,
                  saved |-> "none", differed |-> FALSE]

\* One call made on both managers; saved is how its _save_bonds ended, or
\* "none" if the call does not save.
BondStep(op, address, b1, b2, result, saved) ==
    /\ sm_ops < MaxBondOps
    /\ sm_ops' = sm_ops + 1
    /\ sm_bonds' = b1
    /\ sm_bonds2' = b2
    /\ sm_file' = IF saved = "none" THEN sm_file ELSE save_bonds(b1, sm_file, saved)
    /\ sm_file2' = IF saved = "none" THEN sm_file2 ELSE save_bonds(b2, sm_file2, saved)
    /\ sm_last' = [op |-> op, address |-> address, result |-> result,
                   saved |-> saved, differed |-> sm_bonds # sm_bonds2]

\* register_pairing_callback on both managers
sm_register_pairing_callback(callback_type) ==
    /\ callback_type \notin sm_callbacks
    /\ sm_callbacks' = sm_callbacks \cup {callback_type}
    /\ UNCHANGED <<sm_bonds, sm_bonds2, sm_file, sm_file2, sm_ops, sm_last>>

\* request_pairing on both managers
sm_request_pairing(device_address, method, confirmed, outcome) ==
    LET r == request_pairing(sm_callbacks, method, confirmed) IN
    /\ IF r.pairs
       THEN BondStep("request_pairing", device_address,
                     perform_passkey_pairing(sm_bonds, device_address),
                     perform_passkey_pairing(sm_bonds2, device_address),
                     r.result, outcome)
       ELSE /\ outcome = "written"
            /\ BondStep("request_pairing", device_address, sm_bonds, sm_bonds2,
                        r.result, "none")
    /\ UNCHANGED sm_callbacks

\* BLEInterface.pair_device on the interfaces of both managers:
\* request_pairing with its default method, JUST_WORKS
sm_pair_device(device_address) ==
    LET r == request_pairing(sm_callbacks, "just_works", TRUE) IN
    /\ IF r.pairs
       THEN BondStep("pair_device", device_address,
                     perform_passkey_pairing(sm_bonds, device_address),
                     perform_passkey_pairing(sm_bonds2, device_address),
                     r.result, "written")
       ELSE BondStep("pair_device", device_address, sm_bonds, sm_bonds2,
                     r.result, "none")
    /\ UNCHANGED sm_callbacks

\* handle_security_request on both managers
sm_handle_security_request(device_address, security_level, outcome) ==
    LET r == request_pairing(sm_callbacks, "passkey_entry", TRUE) IN
    /\ IF NeedsPairing(sm_bonds, device_address, security_level) /\ r.pairs
       THEN BondStep("handle_security_request", device_address,
                     perform_passkey_pairing(sm_bonds, device_address),
                     perform_passkey_pairing(sm_bonds2, device_address),
                     r.result, outcome)
       ELSE /\ outcome = "written"
            /\ BondStep("handle_security_request", device_address, sm_bonds, sm_bonds2,
                        TRUE, "none")
    /\ UNCHANGED sm_callbacks

\* remove_bond on both managers
sm_remove_bond(device_address, outcome) ==
    /\ IF HasBond(sm_bonds, device_address)
       THEN BondStep("remove_bond", device_address,
                     DelBond(sm_bonds, device_address),
                     DelBond(sm_bonds2, device_address), TRUE, outcome)
       ELSE /\ outcome = "written"
            /\ BondStep("remove_bond", device_address, sm_bonds, sm_bonds2,
                        FALSE, "none")
    /\ UNCHANGED sm_callbacks

\* set_xor_key on both managers, each with a key of its own
sm_set_xor_key(device_address, xor_key, xor_key2, outcome) ==
    /\ BondStep("set_xor_key", device_address,
                set_xor_key(sm_bonds, device_address, xor_key),
                set_xor_key(sm_bonds2, device_address, xor_key2), TRUE, outcome)
    /\ UNCHANGED sm_callbacks

\* Both processes start again: SecurityManager.__init__ loads the bonds.
sm_load ==
    /\ BondStep("load", "", load_bonds(sm_file), load_bonds(sm_file2), TRUE, "none")
    /\ sm_callbacks' = {}

\* Bond files an earlier run, another tool or an editor may leave behind: no
\* JSON document at all, or a document with an entry whose security level is
\* no value of the enum, alone or after a valid entry.
ForeignBondFiles ==
    { BrokenFile,
      JsonFile(<< [address |-> "AA", security_level |-> 9, authenticated |-> TRUE] >>),
      JsonFile(<< [address |-> "AA", security_level |-> 2, authenticated |-> TRUE],
                  [address |-> "BB", security_level |-> 9, authenticated |-> TRUE] >>) }

\* The bond file of both managers is replaced from outside the process.
sm_bond_file_replaced(file) ==
    /\ sm_ops < MaxBondOps
    /\ sm_ops' = sm_ops + 1
    /\ sm_file' = file
    /\ sm_file2' = file
    /\ sm_last' = [op |-> "file_replaced", address |-> "", result |-> TRUE,
                   saved |-> "none", differed |-> sm_bonds # sm_bonds2]
    /\ UNCHANGED <<sm_bonds, sm_bonds2, sm_callbacks>>

NextBond ==
    \/ \E t \in {"passkey_request", "numeric_comparison"} :
          sm_register_pairing_callback(t) /\ UNCHANGED otherThanBond
    \/ \E a \in BondAddrs, m \in PairingMethod, c \in BOOLEAN, o \in SaveOutcomes :
          sm_request_pairing(a, m, c, o) /\ UNCHANGED otherThanBond
    \/ \E a \in BondAddrs : sm_pair_device(a) /\ UNCHANGED otherThanBond
    \/ \E a \in BondAddrs, l \in DOMAIN SecurityLevel, o \in SaveOutcomes :
          sm_handle_security_request(a, l, o) /\ UNCHANGED otherThanBond
    \/ \E a \in BondAddrs, o \in SaveOutcomes :
          sm_remove_bond(a, o) /\ UNCHANGED otherThanBond
    \/ \E a \in BondAddrs, k \in XorKeys, k2 \in XorKeys, o \in SaveOutcomes :
          sm_set_xor_key(a, k, k2, o) /\ UNCHANGED otherThanBond
    \/ sm_load /\ UNCHANGED otherThanBond
\* The security manager on a bond file that may be replaced between runs.
NextBondLoad ==
    \/ NextBond
    \/ \E file \in ForeignBondFiles :
          sm_bond_file_replaced(file) /\ UNCHANGED otherThanBond

\* ========================================================================
\* Packet inspector
\* ========================================================================

\* ---- bounds of the model ----
MaxInspections == 1003

\* PacketInspector.__init__
PacketInspector == [packet_history |-> << >>, max_history |-> 1000]

\* _add_to_history with the eviction left out.
add_to_history_NoEviction(pi, result) ==
    [pi EXCEPT !.packet_history = Append(pi.packet_history, result)]

\* PacketInspector._add_to_history: append, then pop(0) when over max_history
add_to_history(pi, result) ==
    LET appended == Append(pi.packet_history, result)
    IN  [pi EXCEPT !.packet_history =
            IF Len(appended) > pi.max_history THEN Tail(appended) ELSE appended]

InspectorInitial ==
    /\ inspector = PacketInspector
    /\ inspected = 0

\* PacketInspector.inspect_packet on the n-th packet of the capture; of the
\* InspectionResult only the packet it was made from is kept.  Parser
\* exceptions are caught inside, so every call reaches _add_to_history.
inspect_packet ==
    /\ inspected < MaxInspections
    /\ inspected' = inspected + 1
    /\ inspector' = add_to_history(inspector, inspected + 1)
    /\ UNCHANGED otherThanInspector

NextInspector == inspect_packet

\* ========================================================================
\* Security-gated operations of the OS BLE source
\* (interfaces/macbook_ble.py, class MacBookBLE; interfaces/base.py)
\* ========================================================================

\* ---- bounds of the model ----
MaxTries == 4

\* The operations that call handle_security_error in their except clause.
RecursiveOperations ==
    {"connect", "discover_services", "discover_characteristics",
     "discover_descriptors"}
InlineRetryOperations ==
    {"read_characteristic", "write_characteristic", "subscribe_notifications"}
GatedOperations == RecursiveOperations \cup InlineRetryOperations

\* The keywords handle_security_error looks for in str(error).lower().
SecurityKeywords == {"auth", "encrypt", "pair", "bond", "security"}

\* The exceptions the OS stack raises, each with the keywords its lower-cased
\* message contains: "Insufficient authentication", "Insufficient
\* encryption", "Device not paired", "Bonding failed", "BLE Security Error",
\* "Device not found", "Operation timed out".
StackErrors ==
    {[text |-> "Insufficient authentication", keywords |-> {"auth"}],
     [text |-> "Insufficient encryption", keywords |-> {"encrypt"}],
     [text |-> "Device not paired", keywords |-> {"pair"}],
     [text |-> "Bonding failed", keywords |-> {"bond"}],
     [text |-> "BLE Security Error", keywords |-> {"security"}],
     [text |-> "Device not found", keywords |-> {}],
     [text |-> "Operation timed out", keywords |-> {}]}

\* any(keyword in error_msg for keyword in [...])
matches_security_keyword(error) == error.keywords \cap SecurityKeywords # {}

\* What one call into the OS stack yields.
NoError == [text |-> "", keywords |-> {}]
StackOutcomes ==
    {[ok |-> TRUE, error |-> NoError]} \cup {[ok |-> FALSE, error |-> e] : e \in StackErrors}

\* No operation has been invoked.
NoOperation ==
    [op |-> "none", pc |-> "idle", tries |-> 0, pairings |-> 0,
     error |-> NoError, result |-> "none"]

GattInitial == gatt = NoOperation

\* One of the gated operations is invoked and runs up to its first await of
\* the OS stack.  read, write, subscribe and the discoveries return at once
\* when the address is not in connected_clients.
ble_operation(op, connected) ==
    /\ gatt.pc = "idle"
    /\ gatt' = IF op # "connect" /\ ~connected
               THEN [NoOperation EXCEPT !.op = op, !.result = "failure"]
               ELSE [NoOperation EXCEPT !.op = op,
                                        !.pc = IF op = "connect" THEN "check" ELSE "try"]

\* What raising BLEPairingRequired(None, address) ends in: the constructor
\* reads error.code of None.
NoneHasNoCode ==
    [text |-> "'NoneType' object has no attribute 'code'", keywords |-> {}]

\* connect, before the stack is called: with security requirements that the
\* security manager does not find satisfied, pair_device is awaited first.
check_security_requirements(satisfied, paired) ==
    /\ gatt.pc = "check"
    /\ gatt' = IF satisfied
               THEN [gatt EXCEPT !.pc = "try"]
               ELSE IF paired
               THEN [gatt EXCEPT !.pairings = @ + 1, !.pc = "try"]
               ELSE [gatt EXCEPT !.pairings = @ + 1, !.pc = "except",
                                 !.error = NoneHasNoCode]

\* The awaited call of the try block (client.connect, get_services,
\* read_gatt_char, write_gatt_char, start_notify) returns or raises.
ble_client_call(outcome) ==
    /\ gatt.pc = "try"
    /\ gatt.tries < MaxTries
    /\ gatt' = IF outcome.ok
               THEN [gatt EXCEPT !.tries = @ + 1, !.pc = "idle", !.result = "success"]
               ELSE [gatt EXCEPT !.tries = @ + 1, !.pc = "except",
                                 !.error = outcome.error]

\* The except clause: BLEInterface.handle_security_error pairs when the
\* message matches; on True connect and the discoveries call themselves
\* again, read, write and subscribe repeat the stack call in a nested try.
handle_security_error(paired) ==
    /\ gatt.pc = "except"
    /\ IF matches_security_keyword(gatt.error)
       THEN gatt' = IF paired
                    THEN [gatt EXCEPT !.pairings = @ + 1,
                             !.pc = IF gatt.op = "connect" THEN "check"
                                    ELSE IF gatt.op \in RecursiveOperations
                                    THEN "try" ELSE "retry"]
                    ELSE [gatt EXCEPT !.pairings = @ + 1, !.pc = "idle",
                                      !.result = "failure"]
       ELSE gatt' = [gatt EXCEPT !.pc = "idle", !.result = "failure"]

\* The nested try of read, write and subscribe: whatever is raised there is
\* printed and the operation reports failure.
ble_retry_after_pairing(outcome) ==
    /\ gatt.pc = "retry"
    /\ gatt' = [gatt EXCEPT !.tries = @ + 1, !.pc = "idle",
                            !.error = outcome.error,
                            !.result = IF outcome.ok THEN "success" ELSE "failure"]

NextGatt ==
    \/ \E op \in GatedOperations, connected \in BOOLEAN :
          ble_operation(op, connected) /\ UNCHANGED otherThanGatt
    \/ \E satisfied \in BOOLEAN, paired \in BOOLEAN :
          check_security_requirements(satisfied, paired) /\ UNCHANGED otherThanGatt
    \/ \E outcome \in StackOutcomes : ble_client_call(outcome) /\ UNCHANGED otherThanGatt
    \/ \E paired \in BOOLEAN : handle_security_error(paired) /\ UNCHANGED otherThanGatt
    \/ \E outcome \in StackOutcomes :
          ble_retry_after_pairing(outcome) /\ UNCHANGED otherThanGatt

\* ========================================================================
\* Channel hopper (src/interfaces/channel_hopper.py, class SmartChannelHopper)
\* ========================================================================

\* ---- bounds of the model ----
MaxHops == 4
MaxActivity == 1

ADVERTISING_CHANNELS == <<37, 38, 39>>
DATA_CHANNELS == [i \in 1..37 |-> i - 1]
AllChannels == [i \in 1..40 |-> i - 1]

\* Arguments of start_hopping (<< >>: channels = None) and of
\* set_custom_channels, and the channels packets are seen on.
StartChannelLists == {<< >>, DATA_CHANNELS, <<37>>, <<37, 40>>}
CustomChannelLists == {<< >>, <<12>>, <<40, 5, 99, 37>>}
ActiveChannels == {5, 38}

\* [ch for ch in channels if 0 <= ch <= 39]
ValidChannels(channels) == SelectSeq(channels, LAMBDA ch : 0 <= ch /\ ch <= 39)

\* sorted(...) of a set of channels.
RECURSIVE SortedChannels(_)
SortedChannels(S) ==
    IF S = {} THEN << >>
    ELSE LET least == CHOOSE ch \in S : \A other \in S : ch <= other
         IN  <<least>> \o SortedChannels(S \ {least})

\* Position of a channel in sorted(channel_activity.items(), key = count,
\* reverse = True): the sort is stable, equal counts stay in channel order.
ActivityRank(activity, ch) ==
    Cardinality({c \in DOMAIN activity :
                    \/ activity[c] > activity[ch]
                    \/ (activity[c] = activity[ch] /\ c < ch)})

NoActivity == [ch \in 0..39 |-> 0]

\* SmartChannelHopper.__init__ (hop_task "none": no task).  hopped_to is the
\* channel last given to sniffer.set_channel, -1 before the first hop.
SmartChannelHopper ==
    [hopping_enabled |-> FALSE, channels |-> ADVERTISING_CHANNELS,
     current_channel_index |-> 0, hop_task |-> "none", hops |-> 0,
     hopped_to |-> -1, channel_activity |-> NoActivity, adaptive_mode |-> FALSE]

HopperInitial == hopper = SmartChannelHopper

\* ChannelHopper.start_hopping
start_hopping(channels) ==
    /\ hopper' =
         IF hopper.hopping_enabled THEN hopper
         ELSE [hopper EXCEPT
                 !.channels = IF channels = << >> THEN ADVERTISING_CHANNELS ELSE channels,
                 !.hopping_enabled = TRUE,
                 !.hop_task = "created"]
    /\ UNCHANGED otherThanHopper

\* SmartChannelHopper.start_adaptive_hopping
start_adaptive_hopping ==
    /\ hopper' =
         IF hopper.hopping_enabled THEN [hopper EXCEPT !.adaptive_mode = TRUE]
         ELSE [hopper EXCEPT
                 !.adaptive_mode = TRUE,
                 !.channels = ADVERTISING_CHANNELS,
                 !.hopping_enabled = TRUE,
                 !.hop_task = "created"]
    /\ UNCHANGED otherThanHopper

\* ChannelHopper.stop_hopping: the task is cancelled where it is suspended.
stop_hopping ==
    /\ hopper.hopping_enabled \/ hopper.hop_task # "none"
    /\ hopper' = [hopper EXCEPT !.hopping_enabled = FALSE, !.hop_task = "none"]
    /\ UNCHANGED otherThanHopper

\* One pass of ChannelHopper._hop_loop from the while test to the next sleep:
\* the list is indexed, and an IndexError is caught and slept on.
hop_pass(h) ==
    IF ~h.hopping_enabled THEN [h EXCEPT !.hop_task = "none"]
    ELSE IF h.current_channel_index < Len(h.channels)
    THEN [h EXCEPT !.hopped_to = h.channels[h.current_channel_index + 1],
                   !.hops = @ + 1,
                   !.hop_task = "sleeping"]
    ELSE [h EXCEPT !.hop_task = "error_sleeping"]

\* The hop task runs for the first time.
hop_loop_starts ==
    /\ hopper.hop_task = "created"
    /\ hopper.hops < MaxHops
    /\ hopper' = hop_pass(hopper)
    /\ UNCHANGED otherThanHopper

\* The hop interval is over: the index advances modulo the length of the
\* list as it is now, and the loop makes its next pass.
hop_loop_wakes ==
    /\ hopper.hop_task = "sleeping"
    /\ hopper.hops < MaxHops
    /\ hopper' = hop_pass([hopper EXCEPT !.current_channel_index =
                                (@ + 1) % Len(hopper.channels)])
    /\ UNCHANGED otherThanHopper

\* The sleep of the except clause is over: the loop makes its next pass.
hop_loop_wakes_after_error ==
    /\ hopper.hop_task = "error_sleeping"
    /\ hopper' = hop_pass(hopper)
    /\ UNCHANGED otherThanHopper

\* ChannelHopper.set_advertising_mode
set_advertising_mode ==
    /\ hopper' = [hopper EXCEPT !.channels = ADVERTISING_CHANNELS]
    /\ UNCHANGED otherThanHopper

\* ChannelHopper.set_data_mode
set_data_mode ==
    /\ hopper' = [hopper EXCEPT !.channels = DATA_CHANNELS]
    /\ UNCHANGED otherThanHopper

\* ChannelHopper.set_all_channels_mode
set_all_channels_mode ==
    /\ hopper' = [hopper EXCEPT !.channels = AllChannels]
    /\ UNCHANGED otherThanHopper

\* ChannelHopper.set_custom_channels
set_custom_channels(channels) ==
    /\ hopper' = IF ValidChannels(channels) # << >>
                 THEN [hopper EXCEPT !.channels = ValidChannels(channels)]
                 ELSE hopper
    /\ UNCHANGED otherThanHopper

\* SmartChannelHopper._adjust_channels
adjust_channels(h) ==
    IF ~h.adaptive_mode THEN h
    ELSE LET active_channels ==
                 {ch \in 0..39 : /\ ActivityRank(h.channel_activity, ch) < 10
                                 /\ h.channel_activity[ch] > 0}
                 \cup {ADVERTISING_CHANNELS[i] : i \in 1..Len(ADVERTISING_CHANNELS)}
         IN  [h EXCEPT !.channels = SortedChannels(active_channels),
                       !.channel_activity = NoActivity]

\* SmartChannelHopper.update_channel_activity for a channel that is a key of
\* channel_activity; window_over says whether more than activity_window
\* seconds passed since the last check.
channel_activity_updated(h, channel, window_over) ==
    LET counted == [h EXCEPT !.channel_activity[channel] = @ + 1]
    IN  IF window_over THEN adjust_channels(counted) ELSE counted

\* update_channel_activity is called for a packet seen on channel.
update_channel_activity(channel, window_over) ==
    /\ hopper.channel_activity[channel] < MaxActivity
    /\ hopper' = channel_activity_updated(hopper, channel, window_over)
    /\ UNCHANGED otherThanHopper

NextHopper ==
    \/ \E channels \in StartChannelLists : start_hopping(channels)
    \/ start_adaptive_hopping
    \/ stop_hopping
    \/ hop_loop_starts
    \/ hop_loop_wakes
    \/ hop_loop_wakes_after_error
    \/ set_advertising_mode
    \/ set_data_mode
    \/ set_all_channels_mode
    \/ \E channels \in CustomChannelLists : set_custom_channels(channels)
    \/ \E channel \in ActiveChannels, window_over \in BOOLEAN :
           update_channel_activity(channel, window_over)


\* ========================================================================
\* Packet collectors (interfaces/sniffer_dongle.py, class SnifferDongle;
\* interfaces/macbook_ble.py, class MacBookBLE)
\* ========================================================================

\* ---- bounds of the model ----
MaxPackets == 3
MaxScans == 2

\* The channel bytes of the frames the sniffer reads: two BLE channels and
\* a value that is no BLE channel.
FrameChannels == {5, 38, 40}

CollectorKinds == {"sniffer_dongle", "macbook_ble"}

\* A queue that hands out the newest packet first.
Queue_put_Front(queue, packet) == <<packet>> \o queue

\* asyncio.Queue.put on the unbounded _packet_queue
Queue_put(queue, packet) == Append(queue, packet)

\* SnifferDongle.__init__ / MacBookBLE.__init__; packets are numbered in
\* capture order.  readers counts the live _reader_loop tasks, put_tasks are
\* the scheduled, not yet run tasks of _detection_callback, consumer is where
\* the task iterating packet_stream() stands, frames counts the complete
\* frames the sniffer read from its serial port.
Collector(kind) ==
    [kind |-> kind, _running |-> FALSE, _packet_queue |-> << >>,
     readers |-> 0, put_tasks |-> << >>, consumer |-> "none",
     captured |-> << >>, yielded |-> << >>, scans |-> 0, frames |-> 0]

CollectorInitial == collector = Collector("sniffer_dongle")

\* start_scanning: _running is set; the sniffer also creates its reader task
\* and a new SmartChannelHopper, and starts adaptive hopping on it.
start_scanning ==
    /\ collector.scans < MaxScans
    /\ collector' = [collector EXCEPT
           !._running = TRUE,
           !.scans = @ + 1,
           !.readers = IF collector.kind = "sniffer_dongle" THEN @ + 1 ELSE @]
    /\ hopper' = IF collector.kind = "sniffer_dongle"
                 THEN [SmartChannelHopper EXCEPT !.adaptive_mode = TRUE,
                                                 !.hopping_enabled = TRUE,
                                                 !.hop_task = "created"]
                 ELSE hopper

\* stop_scanning: _running is cleared; the sniffer stops its hopper, if it
\* has one, and then awaits its reader task, which is the step
\* reader_loop_exits.
stop_scanning ==
    /\ collector._running
    /\ collector' = [collector EXCEPT !._running = FALSE]
    /\ hopper' = IF collector.kind = "sniffer_dongle" /\ collector.scans > 0
                 THEN [hopper EXCEPT !.hopping_enabled = FALSE, !.hop_task = "none"]
                 ELSE hopper

\* SnifferDongle._parse_packet for a complete frame of 13 bytes or more
\* whose channel byte is channel: the hopper's activity counters are updated
\* inside the try block, and a KeyError there makes the result None.
sniffer_parse_packet(h, channel, window_over) ==
    IF channel \in DOMAIN h.channel_activity
    THEN [packet |-> TRUE, h |-> channel_activity_updated(h, channel, window_over)]
    ELSE [packet |-> FALSE, h |-> h]

\* SnifferDongle._reader_loop, one pass that read a complete frame: the
\* frame is parsed, and a packet is emitted and put on the queue.  The pass
\* may have begun before _running was cleared.
reader_loop(channel, window_over) ==
    LET parsed == sniffer_parse_packet(hopper, channel, window_over)
        packet == Len(collector.captured) + 1
    IN  /\ collector.kind = "sniffer_dongle"
        /\ collector.readers > 0
        /\ collector.frames < MaxPackets
        /\ hopper' = parsed.h
        /\ collector' = IF parsed.packet
                        THEN [collector EXCEPT
                                !.frames = @ + 1,
                                !.captured = Append(@, packet),
                                !._packet_queue = Queue_put(@, packet)]
                        ELSE [collector EXCEPT !.frames = @ + 1]

\* SnifferDongle._reader_loop: the while test finds _running False.
reader_loop_exits ==
    /\ collector.kind = "sniffer_dongle"
    /\ collector.readers > 0
    /\ ~collector._running
    /\ collector' = [collector EXCEPT !.readers = @ - 1]

\* MacBookBLE._detection_callback: the packet is emitted and a task that
\* will put it on the queue is created.
detection_callback ==
    /\ collector.kind = "macbook_ble"
    /\ collector._running
    /\ Len(collector.captured) < MaxPackets
    /\ LET packet == Len(collector.captured) + 1 IN
       collector' = [collector EXCEPT
           !.captured = Append(@, packet),
           !.put_tasks = Append(@, packet)]

\* The event loop runs the oldest scheduled put task.
put_task_runs ==
    /\ collector.put_tasks # << >>
    /\ collector' = [collector EXCEPT
           !.put_tasks = Tail(@),
           !._packet_queue = Queue_put(@, Head(collector.put_tasks))]

\* packet_stream: the while test, on entry and after each yield.
packet_stream_test ==
    /\ collector.consumer \in {"none", "finished", "yielded"}
    /\ collector' = [collector EXCEPT
           !.consumer = IF collector._running THEN "waiting" ELSE "finished"]

\* packet_stream: await self._packet_queue.get() returns and the packet is
\* yielded.
packet_stream_yield ==
    /\ collector.consumer = "waiting"
    /\ collector._packet_queue # << >>
    /\ collector' = [collector EXCEPT
           !.consumer = "yielded",
           !._packet_queue = Tail(@),
           !.yielded = Append(@, Head(collector._packet_queue))]

NextCollector ==
    \/ start_scanning /\ UNCHANGED otherThanCollectorAndHopper
    \/ stop_scanning /\ UNCHANGED otherThanCollectorAndHopper
    \/ \E channel \in FrameChannels, window_over \in BOOLEAN :
          reader_loop(channel, window_over) /\ UNCHANGED otherThanCollectorAndHopper
    \/ reader_loop_exits /\ UNCHANGED otherThanCollector
    \/ detection_callback /\ UNCHANGED otherThanCollector
    \/ put_task_runs /\ UNCHANGED otherThanCollector
    \/ packet_stream_test /\ UNCHANGED otherThanCollector
    \/ packet_stream_yield /\ UNCHANGED otherThanCollector

\* ========================================================================
\* SCO quality estimator (next_steps/advanced_sco_monitor.py,
\* class AdvancedSCOMonitor)
\* ========================================================================

\* ---- inputs ----
\* Packet-loss rates in percent, latencies and jitters in milliseconds.
LossPercents == {0, 5, 50, 100}
Latencies == {0, 20, 150, 155, 400, 5000}
Jitters == {0, 1, 30, 300, 870, 900, 930, 940, 2000}

\* 2.5 * np.log(1 + 10 * loss) in tenths of an R point, to the nearest tenth:
\* 2.5 ln 1.5 = 1.01, 2.5 ln 6 = 4.48, 2.5 ln 11 = 5.99.
LossImpairment(loss) ==
    CASE loss = 5 -> 10
      [] loss = 50 -> 45
      [] loss = 100 -> 60
      [] OTHER -> 0

\* The R factor of _calculate_mos in tenths: 93.2, minus the loss impairment
\* if loss > 0, minus (latency - 150) * 0.02 if latency > 150, minus
\* jitter * 0.1.
r_factor(loss, latency, jitter) ==
    LET base == 932
        after_loss == IF loss > 0 THEN base - LossImpairment(loss) ELSE base
        after_latency == IF latency > 150
                         THEN after_loss - ((latency - 150) \div 5)
                         ELSE after_loss
    IN  after_latency - jitter

\* round(1 + 0.035 R + 0.000007 R (R - 60) (100 - R), 2) in hundredths, for
\* R = r / 10: the sum is 1 + 7 x / 10^9 with
\* x = 500000 r + r (r - 600) (1000 - r).
r_to_mos(r) ==
    LET x == 500000 * r + r * (r - 600) * (1000 - r)
    IN  100 + 7 * (x \div 10000000) + ((7 * (x % 10000000) + 5000000) \div 10000000)

\* AdvancedSCOMonitor._calculate_mos, the score in hundredths
calculate_mos(loss, latency, jitter) ==
    LET r == r_factor(loss, latency, jitter)
    IN  IF r < 0 THEN 100
        ELSE IF r > 1000 THEN 450
        ELSE r_to_mos(r)

NoScore == [calculated |-> FALSE, loss |-> 0, latency |-> 0, jitter |-> 0, mos_score |-> 0]

MosInitial == mos = NoScore

\* _calculate_mos is called with a loss rate, an average latency and a jitter.
mos_calculate(loss, latency, jitter) ==
    mos' = [calculated |-> TRUE, loss |-> loss, latency |-> latency,
            jitter |-> jitter, mos_score |-> calculate_mos(loss, latency, jitter)]

NextMos ==
    \E loss \in LossPercents, latency \in Latencies, jitter \in Jitters :
        mos_calculate(loss, latency, jitter) /\ UNCHANGED otherThanMos

\* ========================================================================
\* Unified monitor (src/unified_monitor.py, class UnifiedBluetoothMonitor)
\* ========================================================================

\* ---- bounds of the model ----
MaxHfpTests == 5

\* The names an HFPProtocolHandler object resolves: the class constants, the
\* attributes set in __init__ and the methods (hfp_handler.py).  HFPState is
\* a name of the module, not of the class.
HandlerAttributes ==
    {"HF_FEAT_ECNR", "HF_FEAT_3WAY", "HF_FEAT_CLI", "HF_FEAT_VR", "HF_FEAT_RVOL",
     "HF_FEAT_ECS", "HF_FEAT_ECC", "HF_FEAT_CODEC", "HF_FEAT_HF_IND",
     "HF_FEAT_ESCO_S4", "AG_FEAT_3WAY", "AG_FEAT_ECNR", "AG_FEAT_VR",
     "AG_FEAT_RING", "AG_FEAT_VTAG", "AG_FEAT_REJECT", "AG_FEAT_ECS",
     "AG_FEAT_ECC", "AG_FEAT_EERR", "AG_FEAT_CODEC",
     "logger", "role", "state", "features", "at_command_flow",
     "supported_codecs", "selected_codec", "indicators", "call_state",
     "process_at_command", "_handle_outgoing_command", "_handle_incoming_command",
     "_parse_hf_features", "_parse_ag_features", "_parse_indicators",
     "_handle_indicator_event", "analyze_failure", "get_state_info", "reset"}

\* No test has been made.
NoReport ==
    [called |-> FALSE, returned |-> FALSE, raised |-> "", address |-> "",
     success |-> FALSE, steps |-> << >>, failure_analysis |-> << >>,
     audio_metrics |-> FALSE]

\* UnifiedBluetoothMonitor.__init__: no handlers, no connections counted.
UnifiedBluetoothMonitor ==
    [hfp_handlers |-> [a \in Addrs |-> "absent"], hfp_connections |-> 0,
     tests |-> 0, report |-> NoReport]

MonitorInitial == unified_monitor = UnifiedBluetoothMonitor

\* UnifiedBluetoothMonitor.connect_hfp_device: connected says whether
\* classic_adapter.connect_hfp returned a connection.  The result is the
\* connection id ("None": no connection), or the exception raised, and the
\* monitor afterwards.
connect_hfp_device(um, address, connected) ==
    IF ~connected
    THEN [raised |-> "", connection_id |-> "None", um |-> um]
    ELSE LET counted == [um EXCEPT !.hfp_connections = @ + 1,
                                   !.hfp_handlers[address] =
                                       IF @ = "absent" THEN "DISCONNECTED" ELSE @]
         IN  IF "HFPState" \in HandlerAttributes
             THEN [raised |-> "", connection_id |-> "hfp_" \o address,
                   um |-> [counted EXCEPT !.hfp_handlers[address] = "CONNECTING"]]
             ELSE [raised |-> "AttributeError", connection_id |-> "None", um |-> counted]

\* UnifiedBluetoothMonitor.analyze_hfp_failure; active_sco is what
\* classic_adapter.has_active_sco() returns.
analyze_hfp_failure(um, address, active_sco) ==
    IF um.hfp_handlers[address] = "absent"
    THEN [error |-> "No HFP handler for device", analysis |-> << >>,
          sco_analysis |-> FALSE]
    ELSE [error |-> "",
          analysis |-> <<analyze_failure(
                           [HFPProtocolHandler EXCEPT !.state = um.hfp_handlers[address]])>>,
          sco_analysis |-> active_sco]

Step(step, status) == [step |-> step, status |-> status]

\* UnifiedBluetoothMonitor.test_hfp_connection: the report it returns, or the
\* exception it lets through.
test_hfp_connection(address, connected, sco_connected, active_sco) ==
    LET um == unified_monitor
        conn == connect_hfp_device(um, address, connected)
        result == [NoReport EXCEPT !.called = TRUE, !.address = address]
        report ==
            IF conn.raised # ""
            THEN [result EXCEPT !.raised = conn.raised]
            ELSE IF conn.connection_id = "None"
            THEN [result EXCEPT !.returned = TRUE,
                                !.steps = <<Step("HFP Connect", "failed")>>]
            ELSE IF ~sco_connected
            THEN [result EXCEPT
                     !.returned = TRUE,
                     !.steps = <<Step("HFP Connect", "success"),
                                 Step("SCO Setup", "failed")>>,
                     !.failure_analysis =
                         <<analyze_hfp_failure(conn.um, address, active_sco)>>]
            ELSE [result EXCEPT
                     !.returned = TRUE,
                     !.success = TRUE,
                     !.steps = <<Step("HFP Connect", "success"),
                                 Step("SCO Setup", "success"),
                                 Step("Audio Analysis", "success")>>,
                     !.audio_metrics = TRUE]
    IN  /\ um.tests < MaxHfpTests
        /\ unified_monitor' = [conn.um EXCEPT !.tests = @ + 1, !.report = report]

NextMonitor ==
    \E address \in Addrs, connected \in BOOLEAN, sco_connected \in BOOLEAN,
       active_sco \in BOOLEAN :
        /\ test_hfp_connection(address, connected, sco_connected, active_sco)
        /\ UNCHANGED otherThanMonitor

\* ========================================================================
\* UART reader (next_steps/rtk_firmware_loader.py,
\* RTL8723DFirmwareLoader.read_packet)
\* ========================================================================

\* ---- bounds of the model ----
MaxFrames == 2

\* The payloads of the well-formed frames on the stream; no byte of such a
\* frame other than its two delimiters is 0xC0.
StreamPayloads == {<<1>>, <<2, 3>>}

\* A payload without the byte 0xC0 that gives the first frame of a stream
\* (sequence number 1, type HCI_EVENT) the checksum 0x08 ^ 0x04 ^ 0x01 ^ 0xCD
\* = 0xC0.
ChecksumSlipPayload == <<205>>

\* A well-formed frame as the peer builds it.
PeerFrame(peer_seq, payload) ==
    create_packet([H5Protocol EXCEPT !.seq_num = peer_seq],
                  H5PacketType.HCI_EVENT, payload).packet

\* What precedes the well-formed frames: nothing, garbage without a
\* delimiter, a stray 0xC0, a frame too short to parse, a frame whose
\* checksum byte was corrupted.
InvalidPrefixes ==
    [none |-> << >>,
     garbage |-> <<1, 2>>,
     stray_delimiter |-> <<SLIP>>,
     too_short |-> <<SLIP, 1, SLIP>>,
     corrupt |-> [PeerFrame(0, <<1>>) EXCEPT ![6] = BitXor(@, 255)]]

\* The well-formed frames that follow, back to back: their payloads in
\* stream order.
FrameTrains == SeqsUpTo(StreamPayloads, MaxFrames) \ {<< >>}

RECURSIVE TrainBytes(_, _)
TrainBytes(train, peer_seq) ==
    IF train = << >> THEN << >>
    ELSE PeerFrame(peer_seq, Head(train)) \o TrainBytes(Tail(train), (peer_seq + 1) % 8)

\* The position of the first 0xC0 in bytes, 0 if there is none.
FirstSlip(bytes) ==
    IF \E i \in 1..Len(bytes) : bytes[i] = SLIP
    THEN CHOOSE i \in 1..Len(bytes) :
             bytes[i] = SLIP /\ \A j \in 1..(i - 1) : bytes[j] # SLIP
    ELSE 0

\* The serial port with the bytes still to be read (rx), what precedes the
\* well-formed frames (prefix), their payloads (expected), the payloads
\* read_packet returned and how its last call ended.
Uart(prefix, train) ==
    [rx |-> InvalidPrefixes[prefix] \o TrainBytes(train, 1),
     prefix |-> prefix, expected |-> train, returned |-> << >>, last |-> "none"]

\* Nothing arrives.
UartInitial == uart = Uart("none", << >>)

\* RTL8723DFirmwareLoader.read_packet: bytes are dropped up to the first
\* 0xC0, then taken up to and including the next 0xC0, and the bytes taken
\* are parsed.  A read that finds the stream exhausted times out.
read_packet ==
    LET first == FirstSlip(uart.rx)
        rest == SubSeq(uart.rx, first + 1, Len(uart.rx))
        second == FirstSlip(rest)
        packet == <<SLIP>> \o SubSeq(rest, 1, second)
        res == parse_packet(h5, packet)
    IN  /\ uart.last \notin {"TimeoutError: No response from device",
                              "TimeoutError: Incomplete packet"}
        /\ IF first = 0
           THEN /\ uart' = [uart EXCEPT !.rx = << >>,
                                        !.last = "TimeoutError: No response from device"]
                /\ h5' = h5
           ELSE IF second = 0
           THEN /\ uart' = [uart EXCEPT !.rx = << >>,
                                        !.last = "TimeoutError: Incomplete packet"]
                /\ h5' = h5
           ELSE /\ uart' = [uart EXCEPT
                              !.rx = SubSeq(rest, second + 1, Len(rest)),
                              !.returned = IF res.ok THEN Append(@, res.payload) ELSE @,
                              !.last = IF res.ok THEN "returned"
                                       ELSE "ValueError: " \o res.error]
                /\ h5' = res.h
        /\ UNCHANGED <<h5_wire, h5_made, h5_last>>
        /\ UNCHANGED otherThanUart

NextUart == read_packet

\* ========================================================================
\* Device health score (interfaces/auto_connect_manager.py,
\* AutoConnectManager._calculate_device_health)
\* ========================================================================

\* ---- bounds of the model ----
MaxHealthAttempts == 3

\* How long a successful connect took, in tenths of a second, and the
\* uptimes the stability monitor measures, in seconds.
ConnectionTimes == {5, 30, 150}
Uptimes == {60, 3000, 9000}

\* ConnectionMetrics() of a new ManagedConnection, with the connection's
\* state.  average_connection_time is time_sum / successful_connections
\* tenths of a second, stability_score is successful_connections /
\* total_attempts.
NoHealthScore == [calculated |-> FALSE, numerator |-> 0, denominator |-> 1]

HealthOfNewConnection ==
    [state |-> "disconnected", total_attempts |-> 0, successful_connections |-> 0,
     failed_connections |-> 0, consecutive_failures |-> 0, time_sum |-> 0,
     connection_uptime |-> 0, score |-> NoHealthScore]

HealthInitial == health = HealthOfNewConnection

Max2(a, b) == IF a >= b THEN a ELSE b
Min2(a, b) == IF a <= b THEN a ELSE b

\* AutoConnectManager._calculate_device_health: the score as the fraction
\* numerator / denominator; every term is scaled by 300 (the uptime
\* divisor), by total_attempts and by successful_connections.
calculate_device_health(m) ==
    IF m.total_attempts = 0
    THEN [calculated |-> TRUE, numerator |-> 50, denominator |-> 1]
    ELSE LET succ == IF m.successful_connections > 0 THEN m.successful_connections ELSE 1
             \* stability_score * 40
             success_rate == 40 * m.successful_connections * 300 * succ
             \* max(0, 20 - (average_connection_time - 2) * 2), or 10
             time_score == IF m.time_sum > 0
                           THEN Max2(0, 7200 * succ - 60 * m.time_sum)
                           ELSE 3000 * succ
             \* max(0, 20 - consecutive_failures * 5)
             failure_penalty == Max2(0, 6000 - 1500 * m.consecutive_failures) * succ
             \* min(20, connection_uptime / 300), or 0
             uptime_score == IF m.connection_uptime > 0
                             THEN Min2(6000, m.connection_uptime) * succ
                             ELSE 0
         IN  [calculated |-> TRUE,
              numerator |-> success_rate
                            + m.total_attempts * (time_score + failure_penalty + uptime_score),
              denominator |-> 300 * m.total_attempts * succ]

\* _attempt_connection ends: the state is set and update_metrics is called,
\* with the time the connect took if it succeeded.
attempt_ends(success, connection_time) ==
    /\ health.total_attempts < MaxHealthAttempts
    /\ health' =
         IF success
         THEN [health EXCEPT !.state = "connected",
                             !.total_attempts = @ + 1,
                             !.successful_connections = @ + 1,
                             !.consecutive_failures = 0,
                             !.time_sum = @ + connection_time,
                             !.score = NoHealthScore]
         ELSE [health EXCEPT !.state = "failed",
                             !.total_attempts = @ + 1,
                             !.failed_connections = @ + 1,
                             !.consecutive_failures = @ + 1,
                             !.score = NoHealthScore]
    /\ UNCHANGED otherThanHealth

\* _stability_monitor, one pass: the uptime of a connected device is set to
\* the time since its connection attempt began.
stability_monitor_pass(uptime) ==
    /\ health.state = "connected"
    /\ health' = [health EXCEPT !.connection_uptime = uptime, !.score = NoHealthScore]
    /\ UNCHANGED otherThanHealth

\* get_connection_analytics computes the health of the device.
device_health ==
    /\ health' = [health EXCEPT !.score = calculate_device_health(health)]
    /\ UNCHANGED otherThanHealth

NextHealth ==
    \/ \E connection_time \in ConnectionTimes : attempt_ends(TRUE, connection_time)
    \/ attempt_ends(FALSE, 0)
    \/ \E uptime \in Uptimes : stability_monitor_pass(uptime)
    \/ device_health

\* ========================================================================
\* Specifications
\* ========================================================================

\* A component that takes no step in a run stays as constructed.
LaterInitial ==
    /\ GattInitial /\ CollectorInitial /\ MosInitial /\ MonitorInitial
    /\ UartInitial /\ HopperInitial /\ HealthInitial
ACIdle ==
    /\ ACInitial /\ default_config = DefaultConfig /\ addrs = {}
    /\ event_callbacks = FALSE /\ state_file_writable = FALSE
HFPIdle == HFPInitial /\ hfp_script = << >>
EarlierIdle ==
    /\ ACIdle /\ HFPIdle /\ H5Initial /\ FWInitial /\ PatInitial /\ BondInitial
    /\ InspectorInitial

InitAC ==
    /\ ACInitial
    /\ default_config \in {DefaultConfig, ScenarioConfig}
    /\ addrs = {"AA"}
    /\ event_callbacks = FALSE
    /\ state_file_writable = FALSE
    /\ HFPIdle /\ H5Initial /\ FWInitial /\ PatInitial /\ BondInitial /\ InspectorInitial /\ LaterInitial

SpecAC == InitAC /\ [][NextAC]_vars

\* The event loop runs every task that is ready: the per-device tasks take
\* their next step, sleeps and awaited calls end (connect() is bounded by
\* connection_timeout, the health read by its 5 s timeout), and a scheduled
\* queue check runs.  Calls on the manager and BLE events come from outside
\* and are not forced.
ACTasksRun ==
    /\ \A a \in Addrs :
          /\ WF_vars(connection_manager(a))
          /\ WF_vars(backoff_expires(a))
          /\ WF_vars(\E r \in {"connected", "refused", "timeout", "error"} :
                        attempt_connection(a, r))
          /\ WF_vars(\E r \in {"success", "timeout", "error"} :
                        monitor_connection_health(a, r))
    /\ WF_vars(check_connection_queue)

SpecACFair == SpecAC /\ ACTasksRun

\* Two managed addresses under a default configuration that allows one
\* concurrent connection.
SingleSlotConfig == [DefaultConfig EXCEPT !.max_concurrent_connections = 1]

InitAC2 ==
    /\ ACInitial
    /\ default_config = SingleSlotConfig
    /\ addrs = Addrs
    /\ event_callbacks = FALSE
    /\ state_file_writable = FALSE
    /\ HFPIdle /\ H5Initial /\ FWInitial /\ PatInitial /\ BondInitial /\ InspectorInitial /\ LaterInitial

SpecAC2 == InitAC2 /\ [][NextAC]_vars

\* One managed address, a callback registered right after construction and a
\* writable state file.
InitACLife ==
    /\ ACInitial
    /\ default_config = DefaultConfig
    /\ addrs = {"AA"}
    /\ event_callbacks = TRUE
    /\ state_file_writable = TRUE
    /\ HFPIdle /\ H5Initial /\ FWInitial /\ PatInitial /\ BondInitial /\ InspectorInitial /\ LaterInitial

SpecACLife == InitACLife /\ [][NextACLife]_vars

\* One managed address that the constructor restored from the state file:
\* _load_state ran in __init__, before any call on the manager.
RestoredStateFile ==
    StateJson(<<StateEntry(ManagedConnection("AA", DefaultConfig))>>)

InitACRestored ==
    /\ emitted = << >>
    /\ state_file = RestoredStateFile
    /\ last_write = NoWrite
    /\ stability_monitor_task = "none"
    /\ state_save_task = "none"
    /\ conns = load_state(RestoredStateFile)
    /\ next_oid = Len(load_state(RestoredStateFile)) + 1
    /\ managed_connections = [a \in Addrs |-> IF a = "AA" THEN 1 ELSE 0]
    /\ mc_order = <<"AA">>
    /\ connection_tasks = [a \in Addrs |-> NoTask]
    /\ running = FALSE
    /\ queue_checks = 0
    /\ attempts_made = 0
    /\ api_calls = 0
    /\ ble_events = 0
    /\ default_config = DefaultConfig
    /\ addrs = {"AA"}
    /\ event_callbacks = FALSE
    /\ state_file_writable = FALSE
    /\ HFPIdle /\ H5Initial /\ FWInitial /\ PatInitial /\ BondInitial /\ InspectorInitial /\ LaterInitial

SpecACRestored == InitACRestored /\ [][NextAC]_vars


InitHFP ==
    /\ HFPInitial
    /\ hfp_script \in {<< >>, ScenarioD}
    /\ ACIdle /\ H5Initial /\ FWInitial /\ PatInitial /\ BondInitial /\ InspectorInitial /\ LaterInitial

SpecHFP == InitHFP /\ [][NextHFP]_vars

\* A long session: after the service-level connection is set up, the gateway
\* keeps reporting indicator changes.
InitHFPLong ==
    /\ HFPInitial
    /\ hfp_script = << >>
    /\ ACIdle /\ H5Initial /\ FWInitial /\ PatInitial /\ BondInitial /\ InspectorInitial /\ LaterInitial

SpecHFPLong == InitHFPLong /\ [][NextHFPLong]_vars

\* A session in which the handler is reset and used again.
SpecHFPReset == InitHFPLong /\ [][NextHFPReset]_vars

InitH5 == H5Initial /\ ACIdle /\ HFPIdle /\ FWInitial /\ PatInitial /\ BondInitial /\ InspectorInitial /\ LaterInitial

SpecH5 == InitH5 /\ [][NextH5]_vars

\* The endpoint with a peer that sends frames of its own.
SpecH5Link == InitH5 /\ [][NextH5Link]_vars

InitFW == FWInitial /\ ACIdle /\ HFPIdle /\ H5Initial /\ PatInitial /\ BondInitial /\ InspectorInitial /\ LaterInitial

SpecFW == InitFW /\ [][NextFW]_vars

InitPat == PatInitial /\ ACIdle /\ HFPIdle /\ H5Initial /\ FWInitial /\ BondInitial /\ InspectorInitial /\ LaterInitial

SpecPat == InitPat /\ [][NextPat]_vars

InitBond ==
    /\ BondInitial /\ ACIdle /\ HFPIdle /\ H5Initial /\ FWInitial /\ PatInitial
    /\ InspectorInitial /\ LaterInitial

SpecBond == InitBond /\ [][NextBond]_vars

SpecBondLoad == InitBond /\ [][NextBondLoad]_vars

InitInspector ==
    /\ InspectorInitial /\ LaterInitial
    /\ ACIdle /\ HFPIdle /\ H5Initial /\ FWInitial /\ PatInitial /\ BondInitial

SpecInspector == InitInspector /\ [][NextInspector]_vars

InitGatt ==
    /\ GattInitial /\ EarlierIdle
    /\ CollectorInitial /\ MosInitial /\ MonitorInitial /\ UartInitial /\ HopperInitial /\ HealthInitial

SpecGatt == InitGatt /\ [][NextGatt]_vars

\* Either collector, with one task iterating its packet stream.
InitCollector ==
    /\ collector \in {Collector(kind) : kind \in CollectorKinds}
    /\ EarlierIdle
    /\ GattInitial /\ MosInitial /\ MonitorInitial /\ UartInitial /\ HopperInitial /\ HealthInitial

SpecCollector == InitCollector /\ [][NextCollector]_vars

\* The event loop runs every task that is ready: the reader loop, the put
\* tasks and the stream consumer; calls and packets come when they come.
CollectorTasksRun ==
    /\ WF_vars(reader_loop_exits /\ UNCHANGED otherThanCollector)
    /\ WF_vars(put_task_runs /\ UNCHANGED otherThanCollector)
    /\ WF_vars(packet_stream_test /\ UNCHANGED otherThanCollector)
    /\ WF_vars(packet_stream_yield /\ UNCHANGED otherThanCollector)

SpecCollectorFair == SpecCollector /\ CollectorTasksRun

InitMos ==
    /\ MosInitial /\ EarlierIdle
    /\ GattInitial /\ CollectorInitial /\ MonitorInitial /\ UartInitial /\ HopperInitial /\ HealthInitial

SpecMos == InitMos /\ [][NextMos]_vars

InitMonitor ==
    /\ MonitorInitial /\ EarlierIdle
    /\ GattInitial /\ CollectorInitial /\ MosInitial /\ UartInitial /\ HopperInitial /\ HealthInitial

SpecMonitor == InitMonitor /\ [][NextMonitor]_vars

\* A stream is on its way to the port: invalid bytes or none, then
\* well-formed frames back to back.
InitUart ==
    /\ \E prefix \in DOMAIN InvalidPrefixes, train \in FrameTrains :
           uart = Uart(prefix, train)
    /\ EarlierIdle
    /\ GattInitial /\ CollectorInitial /\ MosInitial /\ MonitorInitial /\ HopperInitial /\ HealthInitial

SpecUart == InitUart /\ [][NextUart]_vars

\* Frames built by create_packet are on their way to the port, with nothing
\* before them: every payload of the H5 model, and one whose frame has the
\* checksum byte 0xC0.
InitUartFrames ==
    /\ \E train \in SeqsUpTo(Payloads \cup {ChecksumSlipPayload}, MaxFrames) \ {<< >>} :
           uart = Uart("none", train)
    /\ EarlierIdle
    /\ GattInitial /\ CollectorInitial /\ MosInitial /\ MonitorInitial /\ HopperInitial /\ HealthInitial

SpecUartFrames == InitUartFrames /\ [][NextUart]_vars

InitHealth ==
    /\ HealthInitial /\ EarlierIdle
    /\ GattInitial /\ CollectorInitial /\ MosInitial /\ MonitorInitial /\ UartInitial
    /\ HopperInitial

SpecHealth == InitHealth /\ [][NextHealth]_vars

InitHopper ==
    /\ HopperInitial /\ HealthInitial /\ EarlierIdle
    /\ GattInitial /\ CollectorInitial /\ MosInitial /\ MonitorInitial /\ UartInitial

SpecHopper == InitHopper /\ [][NextHopper]_vars

\* ========================================================================
\* Claims
\* ========================================================================
\* ------------------------------------------------------------------------
\* Claims about the auto-connect manager
\* ------------------------------------------------------------------------
Metrics(o) == conns[o].metrics

FailureLimitReached(c) ==
    c.metrics.consecutive_failures >= c.config.max_consecutive_failures

\* C1, first half: the delay of every managed connection, and of every
\* configuration at every retry count, is at most max_retry_delay.
C1_DelayCapped ==
    /\ \A o \in DOMAIN conns :
           calculate_retry_delay(conns[o]) <= conns[o].config.max_retry_delay
    /\ \A cfg \in Configs, rc \in 0..MaxRetryCount :
           RetryDelay(cfg, rc) <= cfg.max_retry_delay

\* C1, second half as a step property: a connection at its failure limit
\* stays there unless the step is a successful connection, which resets
\* consecutive_failures to 0 and counts one more success.
C1_LimitKept ==
    \A o \in DOMAIN conns \cap DOMAIN conns' :
        FailureLimitReached(conns[o]) =>
            \/ FailureLimitReached(conns'[o])
            \/ /\ conns'[o].metrics.consecutive_failures = 0
               /\ conns'[o].metrics.successful_connections
                      = conns[o].metrics.successful_connections + 1
               /\ conns'[o].state = "connected"

ScenarioFailures(a, k) ==
    /\ managed_connections[a] # 0
    /\ connection_tasks[a].conn = managed_connections[a]
    /\ LET c == conns[managed_connections[a]] IN
           /\ c.config = ScenarioConfig
           /\ c.metrics.successful_connections = 0
           /\ c.metrics.failed_connections = k
           /\ c.retry_count = k

\* C2: with max_retries=3, exponential, initial 1, max 60, the delay slept
\* after the first, second and third failed attempt is 1, 2 and 4 s, and
\* should_retry is false when the fourth attempt would be made.
C2_ScenarioDelays ==
    \A a \in Addrs :
        /\ \A k \in 1..3 :
               (ScenarioFailures(a, k) /\ connection_tasks[a].pc = "backoff")
                   => connection_tasks[a].delay = Pow2(k - 1)
        /\ (ScenarioFailures(a, 3) /\ connection_tasks[a].pc = "loop"
               /\ conns[managed_connections[a]].state = "disconnected")
                   => ~should_retry(conns[managed_connections[a]])

\* C3, stability half: every managed device with attempts has
\* stability_score = successful_connections / total_attempts.
C3_ScoreIsRatio ==
    \A a \in Addrs :
        (managed_connections[a] # 0
            /\ Metrics(managed_connections[a]).total_attempts > 0) =>
        LET m == Metrics(managed_connections[a]) IN
            m.stability_score[1] * m.total_attempts
                = m.stability_score[2] * m.successful_connections

\* C3, monotonicity half as a step property: while an address stays managed
\* its total_attempts never decreases and grows by one exactly in the steps
\* that complete an attempt for it.
C3_TotalMonotone ==
    \A a \in Addrs :
        (managed_connections[a] # 0 /\ managed_connections'[a] # 0) =>
        LET before == conns[managed_connections[a]].metrics.total_attempts
            after == conns'[managed_connections'[a]].metrics.total_attempts
        IN  /\ after >= before
            /\ (attempts_made' = attempts_made + 1 /\ connection_tasks[a].pc = "connecting")
                   => after = before + 1

\* C3: after any sequence of operations, re-adding a managed address
\* included, stability_score = successful_connections / total_attempts for
\* every managed device with attempts, and the total_attempts of an address
\* never decreases and grows by exactly one per completed attempt.
C3_StabilityAndMonotoneAttempts ==
    [](C3_ScoreIsRatio) /\ [][C3_TotalMonotone]_vars

\* The state transitions the design lists for a managed device.
ListedTransition(from, to) ==
    \/ from = "disconnected" /\ to = "connecting"
    \/ from = "connecting" /\ to = "connected"
    \/ from = "connecting" /\ to = "failed"
    \/ from = "failed" /\ to = "disconnected"
    \/ from = "connected" /\ to = "disconnected"
    \/ to = "paused"
    \/ from = "paused" /\ to = "disconnected"

\* C11: every change of the state of a managed connection is one of the
\* listed transitions, under every interleaving of the per-device task with
\* BLE events and pause_device; in particular nothing becomes connected
\* without having been connecting immediately before.
C11_ListedTransitionsOnly ==
    [][\A o \in DOMAIN conns \cap DOMAIN conns' :
          conns'[o].state # conns[o].state
              => ListedTransition(conns[o].state, conns'[o].state)]_vars

\* The addresses whose connection task has been created and has not returned
\* or been cancelled.
LiveTasks == {a \in Addrs : connection_tasks[a].pc \notin {"none", "done"}}

\* C12: the number of managed devices with a live connection task never
\* exceeds max_concurrent_connections: start() fills the slots in priority
\* order and later launches, from disconnection events or the queue check,
\* only fill free slots.
C12_LiveTasksWithinLimit ==
    Cardinality(LiveTasks) <= default_config.max_concurrent_connections

\* C13: stop() first cancels the per-device tasks, the stability monitor and
\* the state-saver and only then writes the final snapshot: when stop() writes
\* the state file, no task of the manager is live any more.
C13_StopWritesAfterCancelling ==
    last_write.by = "stop" => last_write.live = {}

\* The event types the failure taxonomy enumerates.
ListedEventTypes ==
    {"connection_attempt", "connection_success", "connection_failed",
     "connection_timeout", "connection_error", "health_check_success",
     "health_check_timeout", "health_check_failed", "connection_stale",
     "device_paused", "device_enabled", "device_disabled", "state_saved",
     "state_loaded", "state_save_error", "state_load_error", "stability_report",
     "manager_error"}

\* The further event types _emit_event is called with.
UnlistedEventTypes ==
    {"device_added", "device_removed", "connection_queued", "connection_dequeued",
     "stability_error", "state_version_mismatch", "state_restore_error"}

C15_SnapshotRestoresDevices ==
    LET written == save_state(conns, managed_connections, mc_order, state_file, TRUE)
        restored == load_state(written.file)
    IN  \A i \in 1..Len(mc_order) :
            LET c == conns[managed_connections[mc_order[i]]] IN
            \E j \in 1..Len(restored) :
                /\ restored[j].address = c.address
                /\ restored[j].config = c.config
                /\ restored[j].metrics = c.metrics
                /\ restored[j].is_enabled = c.is_enabled
                /\ restored[j].state = "disconnected"

\* ------------------------------------------------------------------------
\* Claims about the HFP protocol handler
\* ------------------------------------------------------------------------
InSeq(x, seq) == \E i \in 1..Len(seq) : seq[i] = x

\* The call just made was the event +BCS:2 from the AG.
JustProcessedBCS2 ==
    hfp_last.cmd = Cmd("+BCS", ":", <<"2">>) /\ hfp_last.dir = "RX"

\* C4: if the AG offered {CVSD, mSBC} and the HF advertised codec
\* negotiation, then right after a +BCS:2 event is processed, whatever came
\* before, the selected codec is mSBC and the state is audio_connected.
C4_CodecSelectedOnBCS ==
    (/\ JustProcessedBCS2
     /\ hfp.supported_codecs = <<"CVSD", "mSBC">>
     /\ hfp.features.codec_negotiation)
        => (hfp.selected_codec = "mSBC" /\ hfp.state = "AUDIO_CONNECTED")

\* +BCS:2 arrives after AT+BRSF=128 and +BAC:1,2 and selects mSBC.
C4_Witness ==
    /\ JustProcessedBCS2
    /\ hfp.supported_codecs = <<"CVSD", "mSBC">>
    /\ hfp.features.codec_negotiation
    /\ Len(hfp.at_command_flow) = 3
    /\ hfp.at_command_flow[3].state = "SLC_CONNECTING"
    /\ hfp.selected_codec = "mSBC"

\* C5: after the six commands of the stall scenario (AT+BRSF with the codec
\* bit, +BRSF, AT+BAC=1,2, AT+CIND=?, +CIND, AT+CMER=3,0,0,1) the state is
\* connected, the selected codec is still CVSD and analyze_failure reports no
\* likely issue.
C5_ScenarioConnectedNoIssues ==
    (hfp_script = ScenarioD /\ Len(hfp.at_command_flow) = 6) =>
        /\ hfp.state = "CONNECTED"
        /\ hfp.selected_codec = "CVSD"
        /\ analyze_failure(hfp).likely_issues = << >>

\* C6: when AT+BCC is sent with the service-level connection established and
\* codec negotiation advertised, and no +BCS was processed, the state is
\* audio_connecting and analyze_failure lists both "SCO audio connection
\* failed" and "Codec negotiation incomplete".
C6_StalledAudioDiagnosis ==
    (/\ hfp_last.cmd = Cmd("AT+BCC", "", << >>) /\ hfp_last.dir = "TX"
     /\ hfp.at_command_flow[Len(hfp.at_command_flow)].state = "CONNECTED"
     /\ hfp.features.codec_negotiation
     /\ ~\E i \in 1..Len(hfp.at_command_flow) :
            StartsWithBCS(hfp.at_command_flow[i].command))
        => /\ hfp.state = "AUDIO_CONNECTING"
           /\ InSeq("SCO audio connection failed", analyze_failure(hfp).likely_issues)
           /\ InSeq("Codec negotiation incomplete", analyze_failure(hfp).likely_issues)

\* C17: after any number of process_at_command calls the AT command trace
\* holds at most 1000 entries.
C17_TraceAtMost1000 == Len(hfp.at_command_flow) <= 1000

\* ------------------------------------------------------------------------
\* Claims about the H5 transport
\* ------------------------------------------------------------------------

\* C7: for every packet type and payload, parse_packet of the frame
\* create_packet built returns exactly that type and payload; and the same
\* frame with its checksum byte altered is rejected with a checksum error
\* instead of a payload.
C7_H5RoundTrip ==
    /\ (h5_last.op = "parse_packet" /\ h5_last.fed = "created") =>
          /\ h5_last.ok
          /\ h5_last.pkt_type = h5_made.pkt_type
          /\ h5_last.payload = h5_made.payload
    /\ (h5_last.op = "parse_packet" /\ h5_last.fed = "checksum_altered") =>
          (~h5_last.ok /\ h5_last.error = "Checksum mismatch")

\* A vendor frame whose payload holds the delimiter byte comes back intact.
C7_Witness ==
    /\ h5_last.op = "parse_packet" /\ h5_last.fed = "created"
    /\ h5_made = [pkt_type |-> H5PacketType.VENDOR, payload |-> <<SLIP, 1>>]
    /\ h5_last.ok /\ h5_last.payload = <<SLIP, 1>>

\* ------------------------------------------------------------------------
\* Claims about the firmware loader
\* ------------------------------------------------------------------------

\* The step-2 version read of this invocation reported subversion 0x8723.
AlreadyPatched == fw_mark > 0 /\ fw_version = PatchedSubversion

\* What was written to the UART after the step-2 version read.
SentAfterVersionRead == {fw_sent[i] : i \in (fw_mark + 1)..Len(fw_sent)}

\* Vendor traffic: an HCI command with opcode 0xFCxx, framed or raw.
IsVendorTraffic(item) ==
    \/ item.kind = "hci" /\ item.opcode \div 256 = 252
    \/ item.kind = "raw" /\ Len(item.bytes) >= 3 /\ item.bytes[3] = 252

ScenarioBAnalysed ==
    /\ pat_result.analysed
    /\ pat_result.match.data = ScenarioB
    /\ pat_matcher = [min_pattern_length |-> 2, max_pattern_length |-> 8]

\* coverage >= 0.99, on the exact fraction
CoverageAtLeast99(coverage) == coverage[1] * 100 >= 99 * coverage[2]

\* C9 as stated: for 01 02 03 01 02 03 01 02 03 with lengths 2..8 the
\* admitted patterns include the 3-byte pattern 010203 with count >= 3, and
\* the coverage is at least 0.99.
C9_ScenarioAdmits010203 ==
    ScenarioBAnalysed =>
        /\ \E i \in 1..Len(pat_result.match.patterns) :
              /\ pat_result.match.patterns[i].hex_pattern = "010203"
              /\ pat_result.match.patterns[i].length = 3
              /\ pat_result.match.patterns[i].count >= 3
        /\ CoverageAtLeast99(pat_result.match.coverage)

\* C9, amended: for that input the admitted patterns are exactly the three
\* 4-byte patterns 01020301, 02030102 and 03010203, each with count 2; the
\* 3-byte pattern 010203 is pruned because the longer ones already cover
\* every byte; the coverage is 1.0.
C9_ScenarioAdmitsFourBytePatterns ==
    ScenarioBAnalysed =>
        /\ [i \in 1..Len(pat_result.match.patterns) |->
               pat_result.match.patterns[i].hex_pattern]
             = <<"01020301", "02030102", "03010203">>
        /\ \A i \in 1..Len(pat_result.match.patterns) :
              pat_result.match.patterns[i].count = 2
        /\ pat_result.match.coverage = <<1, 1>>

C9_Witness ==
    /\ ScenarioBAnalysed
    /\ Len(pat_result.match.patterns) = 3
    /\ pat_result.match.most_frequent[1].hex_pattern = "01020301"

\* ------------------------------------------------------------------------
\* Claims about the bond store
\* ------------------------------------------------------------------------

\* The fields of the bonds that may leave the process.
RedactedBonds(bonds) ==
    [i \in 1..Len(bonds) |->
        [address |-> bonds[i].address,
         security_level |-> SecurityLevel[bonds[i].security_level],
         authenticated |-> bonds[i].authenticated]]

HoldsNoKey(bond) ==
    /\ bond.ltk = "None" /\ bond.irk = "None" /\ bond.csrk = "None"
    /\ bond.xor_key = "None" /\ bond.custom_key = "None"

\* C10: two managers that went through the same calls with different key
\* material have identical bond files; a written file holds exactly the
\* address, security level and authenticated flag of every bond; and loading
\* a saved file restores exactly those fields of every saved bond.
C10_BondFileIndependentOfKeys ==
    /\ sm_file = sm_file2
    /\ sm_last.saved = "written" => sm_file = JsonFile(RedactedBonds(sm_bonds))
    /\ (sm_last.op = "load" /\ sm_file.kind = "json") =>
          /\ RedactedBonds(sm_bonds) = sm_file.entries
          /\ \A i \in 1..Len(sm_bonds) : HoldsNoKey(sm_bonds[i])

\* The two managers held different keys, and a load has restored the bonds.
C10_Witness ==
    /\ sm_last.op = "load" /\ sm_last.differed
    /\ sm_file.kind = "json"
    /\ Len(sm_bonds) > 0
    /\ sm_bonds = sm_bonds2

\* C18: every write of the bond store is an atomic replace: whatever way a
\* save ends, the file afterwards holds the complete previous contents or the
\* complete new contents, never an empty or partial document.
C18_BondFileWrittenAtomically ==
    [][\/ sm_file' = sm_file
       \/ sm_file' = JsonFile(RedactedBonds(sm_bonds'))]_vars

\* The file is no JSON document, or one of its entries cannot be decoded.
CannotBeDecoded(file) ==
    \/ file.kind = "broken"
    \/ /\ file.kind = "json"
       /\ \E i \in 1..Len(file.entries) :
              file.entries[i].security_level
                  \notin {SecurityLevel[n] : n \in DOMAIN SecurityLevel}

\* C19: a process that starts on a bond file that is corrupt or holds an
\* undecodable entry starts with an empty store: no bond from that file is
\* loaded, the entries before the bad one included.
C19_BadBondFileLoadsNothing ==
    (sm_last.op = "load" /\ CannotBeDecoded(sm_file)) => sm_bonds = << >>

\* C20: whenever request_pairing, pair_device or handle_security_request
\* reports success for an address, the store afterwards holds a bond for that
\* address with level authenticated-enc, and the bond file holds its redacted
\* record.
C20_SuccessfulPairingLeavesBond ==
    (/\ sm_last.op \in {"request_pairing", "pair_device", "handle_security_request"}
     /\ sm_last.result)
    => /\ \E i \in 1..Len(sm_bonds) :
              /\ sm_bonds[i].address = sm_last.address
              /\ sm_bonds[i].security_level = "AUTHENTICATED_ENCRYPTION"
       /\ sm_file.kind = "json"
       /\ \E j \in 1..Len(sm_file.entries) :
              sm_file.entries[j] = [address |-> sm_last.address,
                                    security_level |-> 2,
                                    authenticated |-> TRUE]

\* ------------------------------------------------------------------------
\* Claims about the packet inspector
\* ------------------------------------------------------------------------

AttemptStarts(o) ==
    /\ o \in DOMAIN conns
    /\ o \in DOMAIN conns'
    /\ conns[o].state # "connecting"
    /\ conns'[o].state = "connecting"

\* C29: no connection attempt is started for a managed device while it is
\* disabled or while its pause deadline has not yet passed, whatever the
\* interleaving of disable_device, pause_device, BLE events and the
\* per-device task.
C29_NoAttemptWhileDisabledOrPaused ==
    [][\A o \in 1..MaxObjects :
          AttemptStarts(o) => /\ conns[o].is_enabled
                              /\ conns[o].pause_until # "pending"]_vars


\* ------------------------------------------------------------------------
\* Claims about the security-gated operations
\* ------------------------------------------------------------------------

\* C21: a security-gated operation whose failure message matches
\* auth|encrypt|pair|bond|security pairs and is retried exactly once; when
\* the retry fails the same way the operation returns failure, so no
\* invocation calls into the stack more than twice.
C21_AtMostTwoTries == gatt.tries <= 2


\* ------------------------------------------------------------------------
\* Claims about the packet collectors
\* ------------------------------------------------------------------------

\* C22: the packets yielded by packet_stream are the packets the collector
\* captured, in capture order: what was yielded, what waits in the queue and
\* what is still to be put make up the captured sequence, so nothing is
\* reordered, duplicated or lost on the way to the consumer.
C22_StreamInCaptureOrder ==
    collector.yielded \o collector._packet_queue \o collector.put_tasks
        = collector.captured

\* The consumer has been handed two packets while a third was captured and
\* the collector is running.
C22_Witness ==
    /\ collector._running
    /\ Len(collector.yielded) >= 2
    /\ Len(collector.captured) = MaxPackets

\* C23: once stop_scanning has cleared _running, every task of the collector
\* eventually stops (unless scanning is started again): no reader loop is
\* left and no consumer of packet_stream is still waiting.
C23_TasksStopAfterStop ==
    (~collector._running /\ collector.scans > 0)
        ~> (collector._running
               \/ (collector.readers = 0 /\ collector.consumer # "waiting"))


\* ------------------------------------------------------------------------
\* Claims about the SCO quality estimator
\* ------------------------------------------------------------------------

\* C24: for every packet-loss rate in [0,1], every latency >= 0 and every
\* jitter >= 0 the MOS lies in [1.0, 4.5].
C24_MosWithinRange ==
    mos.calculated => (100 <= mos.mos_score /\ mos.mos_score <= 450)


\* ------------------------------------------------------------------------
\* Claims about the H5 link
\* ------------------------------------------------------------------------

\* C26: the outbound sequence number stays in 0..7 and advances by one
\* modulo 8 per created frame, and the ack number, which the next created
\* frame carries, changes only when an incoming frame is accepted, to that
\* frame's sequence number; a rejected frame leaves it unchanged.
C26_AckFollowsAcceptedFrames ==
    [][/\ h5'.seq_num \in 0..7
       /\ h5_last'.op = "create_packet" => h5'.seq_num = (h5.seq_num + 1) % 8
       /\ h5_last'.op = "create_packet" => BitAnd(h5_wire'[2], 7) = h5.ack_num
       /\ h5'.ack_num # h5.ack_num => (h5_last'.op = "parse_packet" /\ h5_last'.ok)
      ]_vars

\* C27: whatever invalid bytes came first, once the stream is read to its
\* end every well-formed frame that followed them has been returned intact,
\* in stream order.
C27_FramesAfterInvalidBytesReturned ==
    uart.rx = << >> => uart.returned = uart.expected

\* C39: frames built by create_packet and read from the stream, with
\* nothing else on it, are returned intact whatever their payload: once the
\* stream is read to its end, the payloads returned are the payloads sent.
C39_CreatedFramesReadIntact ==
    (uart.prefix = "none" /\ uart.rx = << >> /\ uart.expected # << >>)
        => uart.returned = uart.expected

\* ------------------------------------------------------------------------
\* Claims about the device bring-up
\* ------------------------------------------------------------------------

\* C28: setup_device reports success only when every bring-up step succeeded,
\* the version read at the renegotiated baud rate included, and after a
\* failure the serial port is closed.
C28_SuccessOnlyIfEveryStepSucceeded ==
    (fw_pc = "idle" /\ fw_runs > 0) =>
        /\ fw_result = "True" => fw_failed = {}
        /\ fw_failed # {} => (fw_result = "False" /\ fw.serial # "open")

\* ------------------------------------------------------------------------
\* Claims about the unified monitor
\* ------------------------------------------------------------------------

\* C25: test_hfp_connection always returns a report with per-step status,
\* and whenever a step failed the report has success = false and carries the
\* output of the HFP failure analyzer.
C25_FailedStepIsAnalysed ==
    LET report == unified_monitor.report IN
    report.called =>
        /\ report.returned
        /\ report.steps # << >>
        /\ (\E i \in 1..Len(report.steps) : report.steps[i].status = "failed")
              => (~report.success /\ report.failure_analysis # << >>)


\* ------------------------------------------------------------------------
\* Claims about the channel hopper
\* ------------------------------------------------------------------------

\* C30: while hopping is enabled, current_channel_index is a valid index of
\* the current channel list, whatever ticks, mode changes and adaptive
\* rerankings came before, and the hop task is never left failing on it.
C30_IndexValidWhileHopping ==
    hopper.hopping_enabled =>
        /\ hopper.current_channel_index < Len(hopper.channels)
        /\ hopper.hop_task # "error_sleeping"


\* C31: the hopper's channel list never holds a channel outside 0..39, and
\* the hopper never tells the sniffer to hop to one (hopped_to is -1 before
\* the first hop).
C31_ChannelsInRange ==
    /\ \A i \in 1..Len(hopper.channels) :
           0 <= hopper.channels[i] /\ hopper.channels[i] <= 39
    /\ hopper.hopped_to <= 39


\* ------------------------------------------------------------------------
\* Claims about the sniffer's frames
\* ------------------------------------------------------------------------

\* C40: every complete frame the sniffer read has produced exactly one
\* packet, whatever its channel byte.
C40_OnePacketPerFrame ==
    collector.kind = "sniffer_dongle" => Len(collector.captured) = collector.frames


\* ------------------------------------------------------------------------
\* Further claims about the HFP handler
\* ------------------------------------------------------------------------

\* C36: the handler enters audio_connected only from a state in which the
\* service-level connection is established, never from disconnected or
\* slc_connecting.
C36_AudioOnlyAfterSlc ==
    [][(hfp'.state = "AUDIO_CONNECTED" /\ hfp.state # "AUDIO_CONNECTED")
          => hfp.state \notin {"DISCONNECTED", "SLC_CONNECTING"}]_vars

\* C37: a +CIEV event whose index is outside 1..(number of known
\* indicators), 0 included, leaves the indicator table and the call-state
\* view unchanged.
C37_CievOutOfRangeIgnored ==
    [][(/\ hfp_last'.dir = "RX"
        /\ StartsWith(hfp_last'.cmd, "+CIEV", ":")
        /\ Len(hfp_last'.cmd.args) = 2
        /\ IsInt(<<hfp_last'.cmd.args[1]>>)
        /\ IntOf(<<hfp_last'.cmd.args[1]>>) \notin 1..Len(hfp.indicators))
          => (hfp'.indicators = hfp.indicators /\ hfp'.call_state = hfp.call_state)]_vars

\* C38: after reset() the handler answers analyze_failure and get_state_info
\* as a new handler does, and every feature flag has its initial value.
C38_ResetGivesNewHandler ==
    hfp_last.dir = "reset" =>
        /\ analyze_failure(hfp) = analyze_failure(HFPProtocolHandler)
        /\ get_state_info(hfp) = get_state_info(HFPProtocolHandler)
        /\ hfp.features = HFPFeatures


\* ------------------------------------------------------------------------
\* Claims about the device health score
\* ------------------------------------------------------------------------

\* C32: whatever the metrics of a managed connection, the health score
\* computed for the analytics report lies in [0, 100].
C32_HealthScoreInRange ==
    health.score.calculated =>
        /\ 0 <= health.score.numerator
        /\ health.score.numerator <= 100 * health.score.denominator


\* ------------------------------------------------------------------------
\* Further claims about the auto-connect manager
\* ------------------------------------------------------------------------

\* C33: once pause_device has paused a device, also while its connection
\* attempt is in flight or while it waits in state failed, the state stays
\* paused until the pause deadline has passed and then becomes disconnected;
\* nothing else overwrites paused.
C33_PausedUntilDeadline ==
    [][\A o \in DOMAIN conns \cap DOMAIN conns' :
          (conns[o].state = "paused" /\ conns'[o].state # "paused")
              => /\ conns[o].pause_until = "expired"
                 /\ conns'[o].state = "disconnected"]_vars

\* The connection attempt of object o is in flight: a task is suspended in
\* the await of connect() on it.
AttemptInFlight(o) ==
    \E a \in Addrs : /\ connection_tasks[a].pc = "connecting"
                     /\ connection_tasks[a].sub = o

\* C34: a managed device is never left in state connecting with no attempt
\* in flight, also when the task running the attempt was cancelled by
\* disable_device, remove_managed_device or stop(): every device that entered
\* connecting leaves it.
C34_ConnectingHasAttempt ==
    \A a \in Addrs :
        (managed_connections[a] # 0
            /\ conns[managed_connections[a]].state = "connecting")
        => AttemptInFlight(managed_connections[a])


\* The connections that count against the limit in _check_connection_queue.
ActiveCount ==
    Cardinality({a \in Addrs :
        /\ managed_connections[a] # 0
        /\ conns[managed_connections[a]].state \in {"connected", "connecting"}})

\* The manager runs, a slot is free, and the device at address a is enabled,
\* not paused, disconnected and has retries left (and the model's bound on
\* attempts is not used up).
Eligible(a) ==
    /\ running
    /\ managed_connections[a] # 0
    /\ conns[managed_connections[a]].state = "disconnected"
    /\ should_retry(conns[managed_connections[a]])
    /\ ActiveCount < default_config.max_concurrent_connections
    /\ attempts_made < MaxAttempts

Attempting(a) ==
    /\ managed_connections[a] # 0
    /\ conns[managed_connections[a]].state = "connecting"

\* C35: while the manager runs, an enabled, non-paused, disconnected device
\* with retries left gets a connection attempt once a slot is free (unless it
\* stops being such a device first), also when it was added after start() or
\* re-enabled after disable_device, and without a disconnection event.
C35_EligibleDeviceAttempted ==
    \A a \in Addrs : Eligible(a) ~> (Attempting(a) \/ ~Eligible(a))


=============================================================================
